---- MODULE Spec2Model ----
(***************************************************************************)
(* Toad's Adventure: movement, collision and character-state engine.       *)
(*                                                                         *)
(* Positions are integer pixels.  Velocities are Python floats that are    *)
(* always multiples of 0.25 (every acceleration, friction, gravity and     *)
(* speed constant of config.py is one), so a velocity v is held as the     *)
(* integer Q * v with Q = 4.                                               *)
(*                                                                         *)
(* The level files maps/level*.map are data, not code: the levels below    *)
(* (MAPS, STARTING_LOCATIONS, NPC_LOCATIONS) are small levels built from   *)
(* the tile numbers of config.py.                                          *)
(***************************************************************************)
EXTENDS Integers, Sequences, FiniteSets, TLC

VARIABLES
    currentLevel, player, NPCs,  \* ToadsAdventure
    keys, newKeys, running,      \* Game.mainLoop; running until it returns
    held, pressed,               \* keys down by the events so far; KEYDOWNs of this frame
    numEvents, frame,            \* key events so far; frames of this level so far
    log,                         \* the last frame: what gameLogic found and did
    sinceDamage                  \* frames since a big player was last hurt

vars == <<currentLevel, player, NPCs, keys, newKeys, running, held, pressed,
          numEvents, frame, log, sinceDamage>>

----------------------------------------------------------------------------
(* config.py *)

Q == 4

NUM_LEVELS == 5
MAP_TILE_SIZE == 16
CHARACTER_TILE_SIZE == 32


NON_SOLID_TILES ==
    {21, 22, 23, 24, 25, 26, 37, 38, 39, 44, 57, 62,
     63, 64, 65, 72, 73, 80, 81, 82, 83, 84, 85, 86,
     87, 88, 90, 91, 94, 95, 99, 100, 101, 102, 103,
     104, 105, 106, 108, 111, 112, 113, 114, 126}

TOP_SOLID_TILES ==
    {3, 4, 5, 6, 7, 8, 9, 10, 11, 27, 28, 29, 40, 41,
     42, 43, 45, 46, 47, 58, 59, 60, 61, 76, 77, 78,
     79, 96, 130, 131}

SOLID_TILES == (0 .. 143) \ (NON_SOLID_TILES \cup TOP_SOLID_TILES)

OPEN_DOOR == 62
SPIKE_TILE == 132
CLIMBABLE_TILES == {57, 73, 90, 91, 108}
ICY_TILES == {12, 13, 14, 15, 27, 28, 29, 30, 31, 32, 33, 48,
              49, 50, 51, 66, 67, 68, 129}

PLAYER == 0
SHY_GUY_RED == 1
SHY_GUY_BLUE == 2
NINJI == 3
FLURRY == 4
SPARK == 5
PORCUPO == 6
ALBATOSS == 7
POKEY == 8
PHANTO == 9

FIRST_PLAYER_TILE_BIG == 0
FIRST_PLAYER_TILE_SMALL == 10

DEFAULT_WIDTH_OFFSET == 10
DEFAULT_HEIGHT_OFFSET == 13
PLAYER_WIDTH_OFFSET == 9
PLAYER_HEIGHT_OFFSET_BIG == 6
PLAYER_HEIGHT_OFFSET_SMALL == 13

DEFAULT_STANCES == 2
PLAYER_STANCES == 3
SPARK_STANCES == 3
ALBATOSS_STANCES == 6
PHANTO_STANCES == 0

PLAYER_JUMPING_STANCE == 2
NINJI_JUMPING_STANCE == 1

MINIMUM_PIXELS_PER_FRAME == 2
DEFAULT_PIXELS_PER_STANCE_CHANGE == 16

PLAYER_ACCELERATION_RATE == 1 * Q
DEFAULT_NPC_ACCELERATION_RATE == Q \div 2
DEFAULT_FRICTION_PER_FRAME == Q \div 2
ICE_FRICTION_PER_FRAME == Q \div 4
GRAVITY_PER_FRAME == Q \div 2

PLAYER_MAX_SPEED_X == 6 * Q
PLAYER_MAX_SPEED_Y == 7 * Q
DEFAULT_NPC_MAX_SPEED_X == Q \div 2
DEFAULT_NPC_MAX_SPEED_Y == 7 * Q

PLAYER_CLIMBING_RATE == 2 * Q

INVINCIBILITY_AFTER_DAMAGE == 150

K_LEFT == "K_LEFT"
K_RIGHT == "K_RIGHT"
K_UP == "K_UP"
K_DOWN == "K_DOWN"
K_SPACE == "K_SPACE"
K_a == "K_a"
K_d == "K_d"
K_w == "K_w"
K_s == "K_s"
K_ESCAPE == "K_ESCAPE"

----------------------------------------------------------------------------
(* The levels.  Rows top to bottom, columns left to right; 0 is a solid    *)
(* block, 12 an ice block, 21 is sky, 3 a one-way ledge, 132 a spike, 62   *)
(* the open door, 57 a vine.                                               *)
(*   level 1: a closed room with a one-way ledge above the exit door and   *)
(*            another under the ceiling, above the player's start;         *)
(*            over it two rows of sky open at both ends of the map, and    *)
(*            to its right, over a pit, a platform one tile wide and one   *)
(*            two tiles wide                                               *)
(*   level 2: the player starts in the air over a spike, with a vine just  *)
(*            above the spike; the door is to the right; behind the right  *)
(*            wall, a shaft with a Shy Guy in the air over a pit, a floor  *)
(*            tile between pit and far wall                                *)
(*   level 3: a corridor with a pit at its left end; the player starts on  *)
(*            an ice block; one Shy Guy next to the player and one far to  *)
(*            the right, both walking left                                 *)
(*   level 4: open to the sky; the player starts on ice with a vine behind *)
(*            it; a pit with two Shy Guys in the air above it and a third  *)
(*            on its right edge; the door is to the left                   *)
(*   level 5: the exit door with a Shy Guy walking towards it, a pit at    *)
(*            the left end with a one-way ledge over its far half, at the  *)
(*            height of the player's feet                                  *)

MAPS == <<
  << << 21, 21, 21, 21, 21, 21, 21, 21, 21, 21, 21, 21, 21, 21>>,
     << 21, 21, 21, 21, 21, 21, 21, 21, 21, 21, 21, 21, 21, 21>>,
     <<  0,  0,  0,  0,  0,  0,  0,  0, 21, 21, 21, 21, 21, 21>>,
     <<  0, 21, 21, 21, 21, 21, 21,  0, 21, 21, 21, 21, 21, 21>>,
     <<  0, 21,  3, 21, 21, 21, 21,  0, 21, 21, 21, 21, 21, 21>>,
     <<  0, 21, 21, 21, 21, 21, 21,  0, 21,  0, 21,  0,  0, 21>>,
     <<  0, 21, 21, 21, 21,  3,  3,  0, 21, 21, 21, 21, 21, 21>>,
     <<  0, 21, 21, 21, 21, 21, 62,  0, 21, 21, 21, 21, 21, 21>>,
     <<  0,  0,  0,  0,  0,  0,  0,  0, 21, 21, 21, 21, 21, 21>> >>,
  << <<  0,  0,  0,  0,  0,  0,  0, 21, 21,  0>>,
     <<  0, 21, 21, 21, 21, 21,  0, 21, 21,  0>>,
     <<  0, 21, 21, 21, 21, 21,  0, 21, 21,  0>>,
     <<  0, 21, 57, 21, 21, 62,  0, 21, 21,  0>>,
     <<  0,  0,132,  0,  0,  0,  0, 21, 21,  0>>,
     <<  0,  0,  0,  0,  0,  0,  0, 21,  0,  0>> >>,
  << <<  0,  0,  0,  0,  0,  0,  0,  0,  0,  0,  0,  0,  0,  0,  0,  0,  0,  0,  0,  0,  0,  0,  0,  0,  0,  0,  0>>,
     <<  0, 21, 21, 21, 21, 21, 21, 21, 21, 21, 21, 21, 21, 21, 21, 21, 21, 21, 21, 21, 21, 21, 21, 21, 21, 21,  0>>,
     <<  0, 21, 21, 21, 21, 21, 21, 21, 21, 21, 21, 21, 21, 21, 21, 21, 21, 21, 21, 21, 21, 21, 21, 21, 21, 21,  0>>,
     <<  0, 21, 21, 21, 21, 21, 21, 21, 21, 21, 21, 21, 21, 21, 21, 21, 21, 21, 21, 21, 21, 21, 21, 21, 21, 21,  0>>,
     <<  0, 21, 21,  0,  0, 12,  0,  0,  0,  0,  0,  0,  0,  0,  0,  0,  0,  0,  0,  0,  0,  0,  0,  0,  0,  0,  0>> >>,
  << <<  0, 21, 21, 21, 21, 21,  0>>,
     <<  0, 21, 21, 21, 21, 21,  0>>,
     <<  0, 21, 21, 21, 21, 21,  0>>,
     <<  0, 62, 57, 21, 21, 21,  0>>,
     <<  0,  0, 12, 21, 21,  0,  0>> >>,
  << <<  0,  0,  0,  0,  0,  0,  0,  0,  0>>,
     <<  0, 21, 21, 21, 21, 21, 21, 21,  0>>,
     <<  0, 21, 21, 21, 21, 21, 21, 21,  0>>,
     <<  0,  3, 21, 21, 21, 62, 21, 21,  0>>,
     <<  0, 21, 21,  0,  0,  0,  0,  0,  0>> >> >>

STARTING_LOCATIONS == << <<2, 7>>, <<2, 2>>, <<5, 3>>, <<2, 3>>, <<4, 3>> >>

NPC_LOCATIONS == <<
  << >>,
  << <<SHY_GUY_RED, 8, 1>> >>,
  << <<SHY_GUY_RED, 6, 3>>, <<SHY_GUY_RED, 25, 3>> >>,
  << <<SHY_GUY_RED, 4, 2>>, <<SHY_GUY_RED, 4, 2>>, <<SHY_GUY_RED, 5, 3>> >>,
  << <<SHY_GUY_RED, 7, 3>> >> >>

----------------------------------------------------------------------------
(* map.py, tileset.py *)

\* Map.__init__ for every level
Map == [m \in 1 .. NUM_LEVELS |->
          [mapHeight |-> Len(MAPS[m]),
           mapWidth  |-> CHOOSE w \in {Len(MAPS[m][i]) : i \in 1 .. Len(MAPS[m])} :
                             \A i \in 1 .. Len(MAPS[m]) : w <= Len(MAPS[m][i])]]

mapHeight(m) == Map[m].mapHeight

mapWidth(m) == Map[m].mapWidth

playerStartingPosition(m) ==
    << (STARTING_LOCATIONS[m][1] - 1) * MAP_TILE_SIZE,
       (STARTING_LOCATIONS[m][2] - 1) * MAP_TILE_SIZE >>

\* the lookup with the coordinates brought back into the map
getTileNumber_clamped(m, x, y) ==
    MAPS[m][(IF y < 0 THEN 0 ELSE IF y >= mapHeight(m) THEN mapHeight(m) - 1 ELSE y) + 1]
           [(IF x < 0 THEN 0 ELSE IF x >= mapWidth(m) THEN mapWidth(m) - 1 ELSE x) + 1]

getTileNumber(m, x, y) ==
    IF x < 0 \/ y < 0 \/ x >= mapWidth(m) \/ y >= mapHeight(m)
    THEN -1
    ELSE MAPS[m][y + 1][x + 1]

getTileCoordsAt(x, y) == << x \div MAP_TILE_SIZE, y \div MAP_TILE_SIZE >>

getTileNumberAt(m, x, y) ==
    LET c == getTileCoordsAt(x, y) IN getTileNumber(m, c[1], c[2])

isSolid(tileNum) == tileNum \in SOLID_TILES

\* non-solid taken as everything that is not completely solid
isNonSolid_notSolid(tileNum) == tileNum \notin SOLID_TILES

isNonSolid(tileNum) == tileNum \in NON_SOLID_TILES \/ tileNum = -1

isSolidAt(m, x, y) == isSolid(getTileNumberAt(m, x, y))

isNonSolidAt(m, x, y) == isNonSolid(getTileNumberAt(m, x, y))

----------------------------------------------------------------------------
(* characters.py: GameCharacter.  A character c is a record; the fields    *)
(* fixed by its ID at construction are the operators below.                *)

maxSpeedX(c) == IF c.ID = PLAYER THEN PLAYER_MAX_SPEED_X ELSE DEFAULT_NPC_MAX_SPEED_X

maxSpeedY(c) == IF c.ID = PLAYER THEN PLAYER_MAX_SPEED_Y ELSE DEFAULT_NPC_MAX_SPEED_Y

\* NPCs accelerating at half their rate
accelerationRate_halved(c) ==
    IF c.ID = PLAYER THEN PLAYER_ACCELERATION_RATE
    ELSE DEFAULT_NPC_ACCELERATION_RATE \div 2

accelerationRate(c) ==
    IF c.ID = PLAYER THEN PLAYER_ACCELERATION_RATE ELSE DEFAULT_NPC_ACCELERATION_RATE

widthOffset(c) == IF c.ID = PLAYER THEN PLAYER_WIDTH_OFFSET ELSE DEFAULT_WIDTH_OFFSET

stances(c) ==
    CASE c.ID = PLAYER -> PLAYER_STANCES
      [] c.ID = SPARK -> SPARK_STANCES
      [] c.ID = ALBATOSS -> ALBATOSS_STANCES
      [] c.ID = PHANTO -> PHANTO_STANCES
      [] OTHER -> DEFAULT_STANCES

Abs(n) == IF n < 0 THEN -n ELSE n

\* int(math.ceil(n)) of the float n = q / Q, q >= 0
Ceil(q) == (q + Q - 1) \div Q

\* the rounding up to a whole pixel only
roundUp_toWholePixel(q) == Ceil(q)

\* GameCharacter.roundUp
roundUp(q) ==
    ((Ceil(q) + (MINIMUM_PIXELS_PER_FRAME - 1)) \div MINIMUM_PIXELS_PER_FRAME)
        * MINIMUM_PIXELS_PER_FRAME

\* isColliding without the test of the one-way platforms
isColliding_noTopSolid(c, x, y) ==
    \E px \in {x + widthOffset(c), x + CHARACTER_TILE_SIZE \div 2,
                x + (CHARACTER_TILE_SIZE - 1) - widthOffset(c)},
       py \in {y + c.heightOffset, y + CHARACTER_TILE_SIZE \div 2,
                y + (CHARACTER_TILE_SIZE - 1)} :
        /\ ~(px = x + CHARACTER_TILE_SIZE \div 2 /\ py = y + CHARACTER_TILE_SIZE \div 2)
        /\ isSolidAt(c.map, px, py)

isColliding(c, x, y) ==
    LET left   == x + widthOffset(c)
        right  == x + (CHARACTER_TILE_SIZE - 1) - widthOffset(c)
        top    == y + c.heightOffset
        bottom == y + (CHARACTER_TILE_SIZE - 1)
        midX   == x + CHARACTER_TILE_SIZE \div 2
        midY   == y + CHARACTER_TILE_SIZE \div 2
    IN  IF \/ isSolidAt(c.map, left, top)
           \/ isSolidAt(c.map, right, top)
           \/ isSolidAt(c.map, left, bottom)
           \/ isSolidAt(c.map, right, bottom)
           \/ isSolidAt(c.map, left, midY)
           \/ isSolidAt(c.map, right, midY)
           \/ isSolidAt(c.map, midX, top)
           \/ isSolidAt(c.map, midX, bottom)
        THEN TRUE
        ELSE /\ c.dy >= 0
             /\ \/ getTileNumberAt(c.map, left, bottom) \in TOP_SOLID_TILES
                \/ getTileNumberAt(c.map, right, bottom) \in TOP_SOLID_TILES

\* isOverlapping with the left-hand test strict
isOverlapping_strictly(self, other) ==
    LET selfLeft    == self.x + widthOffset(self)
        selfRight   == self.x + (CHARACTER_TILE_SIZE - 1) - widthOffset(self)
        selfTop     == self.y + self.heightOffset
        selfBottom  == self.y + (CHARACTER_TILE_SIZE - 1)
        otherLeft   == other.x + widthOffset(other)
        otherRight  == other.x + (CHARACTER_TILE_SIZE - 1) - widthOffset(other)
        otherTop    == other.y + other.heightOffset
        otherBottom == other.y + (CHARACTER_TILE_SIZE - 1)
    IN  /\ selfRight > otherLeft /\ selfLeft <= otherRight
        /\ selfTop <= otherBottom /\ selfBottom >= otherTop

isOverlapping(self, other) ==
    LET selfLeft    == self.x + widthOffset(self)
        selfRight   == self.x + (CHARACTER_TILE_SIZE - 1) - widthOffset(self)
        selfTop     == self.y + self.heightOffset
        selfBottom  == self.y + (CHARACTER_TILE_SIZE - 1)
        otherLeft   == other.x + widthOffset(other)
        otherRight  == other.x + (CHARACTER_TILE_SIZE - 1) - widthOffset(other)
        otherTop    == other.y + other.heightOffset
        otherBottom == other.y + (CHARACTER_TILE_SIZE - 1)
    IN  /\ selfRight >= otherLeft /\ selfLeft <= otherRight
        /\ selfTop <= otherBottom /\ selfBottom >= otherTop

onGround(c) == isColliding(c, c.x, c.y + 1)

getTileNumberBehind(c) ==
    getTileNumberAt(c.map, c.x + CHARACTER_TILE_SIZE \div 2,
                    c.y + CHARACTER_TILE_SIZE - 1)

getTileNumberBelow(c) ==
    getTileNumberAt(c.map, c.x + CHARACTER_TILE_SIZE \div 2,
                    c.y + CHARACTER_TILE_SIZE + 1)

onIce(c) == getTileNumberBelow(c) \in ICY_TILES

willFall(c) ==
    LET left   == c.x
        right  == c.x + CHARACTER_TILE_SIZE + 1
        bottom == c.y + CHARACTER_TILE_SIZE + 1
    IN  /\ onGround(c)
        /\ \/ c.facingRight /\ isNonSolidAt(c.map, right, bottom)
           \/ ~c.facingRight /\ isNonSolidAt(c.map, left, bottom)

\* pushX turning the character only when it is pushed to the right
pushX_turningRightOnly(c, ddx) ==
    LET d == c.dx + ddx
    IN  IF d > 0
        THEN [c EXCEPT !.facingRight = TRUE,
                       !.dx = IF d > maxSpeedX(c) THEN maxSpeedX(c) ELSE d]
        ELSE IF d < 0
        THEN [c EXCEPT !.dx = IF d < -maxSpeedX(c) THEN -maxSpeedX(c) ELSE d]
        ELSE [c EXCEPT !.dx = d]

pushX(c, ddx) ==
    LET d == c.dx + ddx
    IN  IF d > 0
        THEN [c EXCEPT !.facingRight = TRUE,
                       !.dx = IF d > maxSpeedX(c) THEN maxSpeedX(c) ELSE d]
        ELSE IF d < 0
        THEN [c EXCEPT !.facingRight = FALSE,
                       !.dx = IF d < -maxSpeedX(c) THEN -maxSpeedX(c) ELSE d]
        ELSE [c EXCEPT !.dx = d]

\* pushY with the upward speed left unlimited
pushY_noUpwardLimit(c, ddy) ==
    LET d == c.dy + ddy
    IN  [c EXCEPT !.dy = IF d > maxSpeedY(c) THEN maxSpeedY(c) ELSE d]

pushY(c, ddy) ==
    LET d == c.dy + ddy
    IN  [c EXCEPT !.dy = IF d > maxSpeedY(c) THEN maxSpeedY(c)
                         ELSE IF d < -maxSpeedY(c) THEN -maxSpeedY(c)
                         ELSE d]

left(c) == pushX(c, -accelerationRate(c))

right(c) == pushX(c, accelerationRate(c))

\* "self.dx == 0.0" in the two overshoot branches is a comparison: dx is kept
applyFriction(c) ==
    IF c.isFlying THEN c
    ELSE LET frictionPerFrame ==
                 IF onIce(c) THEN ICE_FRICTION_PER_FRAME
                 ELSE DEFAULT_FRICTION_PER_FRAME
         IN  IF c.dx > 0
             THEN IF c.dx - frictionPerFrame < 0 THEN c
                  ELSE pushX(c, -frictionPerFrame)
             ELSE IF c.dx < 0
             THEN IF c.dx + frictionPerFrame > 0 THEN c
                  ELSE pushX(c, frictionPerFrame)
             ELSE c

applyGravity(c) ==
    IF ~c.isClimbing /\ ~c.isFlying THEN pushY(c, GRAVITY_PER_FRAME) ELSE c

\* the jump without the test for ground underfoot
jump_fromAnywhere(c) == pushY(c, maxSpeedY(c) * (-2))

jump(c) == IF onGround(c) THEN pushY(c, maxSpeedY(c) * (-2)) ELSE c

\* the x reached from x by at most n one-pixel steps, stopping before the
\* first step that would collide
RECURSIVE stepX(_, _, _, _)
stepX(c, x, signX, n) ==
    IF n = 0 \/ isColliding(c, x + signX, c.y) THEN x
    ELSE stepX(c, x + signX, signX, n - 1)

RECURSIVE stepY(_, _, _, _)
stepY(c, y, signY, n) ==
    IF n = 0 \/ isColliding(c, c.x, y + signY) THEN y
    ELSE stepY(c, y + signY, signY, n - 1)

signOf(d) == IF d < 0 THEN -1 ELSE 1

\* "Perform horizontal movement"
moveX(c) == [c EXCEPT !.x = stepX(c, c.x, signOf(c.dx), roundUp(Abs(c.dx)))]

\* the vertical movement with dy set to 0 when a collision stops it
moveY_stopping(c) ==
    [c EXCEPT !.y  = stepY(c, c.y, signOf(c.dy), roundUp(Abs(c.dy))),
              !.dy = IF stepY(c, c.y, signOf(c.dy), roundUp(Abs(c.dy)))
                          = c.y + signOf(c.dy) * roundUp(Abs(c.dy))
                     THEN c.dy ELSE 0]

\* "Perform vertical movement"
moveY(c) == [c EXCEPT !.y = stepY(c, c.y, signOf(c.dy), roundUp(Abs(c.dy)))]

\* "Adjust the character's stance as appropriate": the stance that follows
\* c's when the move count has become mc
nextStance(c, mc) ==
    IF mc >= 0 /\ mc < DEFAULT_PIXELS_PER_STANCE_CHANGE
    THEN IF c.currentStance + 1 >= stances(c)
         THEN stances(c) - 1 ELSE c.currentStance + 1
    ELSE IF c.currentStance - 1 < 0
         THEN 1 ELSE c.currentStance - 1

setStance(c, mc) ==
    IF c.dx = 0 THEN [c EXCEPT !.currentStance = 0, !.moveCount = 0]
    ELSE [c EXCEPT !.moveCount = mc, !.currentStance = nextStance(c, mc)]

\* "Character is in the air"
inTheAir(c) ==
    IF ~onGround(c)
    THEN IF c.ID = PLAYER
         THEN [c EXCEPT !.currentStance = PLAYER_JUMPING_STANCE, !.moveCount = 0]
         ELSE IF c.ID = NINJI THEN [c EXCEPT !.currentStance = 1]
         ELSE c
    ELSE c

\* c, which was at c0 before it moved, with its stance adjusted
adjustStance(c0, c) ==
    inTheAir(setStance(c, (c.moveCount + Abs(c.x - c0.x))
                              % (DEFAULT_PIXELS_PER_STANCE_CHANGE * 2)))

move(c) == adjustStance(c, moveY(moveX(c)))

----------------------------------------------------------------------------
(* characters.py: PlayerCharacter *)

PlayerCharacter(m) ==
    [ID |-> PLAYER, map |-> m,
     x |-> playerStartingPosition(m)[1], y |-> playerStartingPosition(m)[2],
     dx |-> 0, dy |-> 0, facingRight |-> TRUE,
     firstTile |-> FIRST_PLAYER_TILE_BIG,
     heightOffset |-> PLAYER_HEIGHT_OFFSET_BIG,
     currentStance |-> 0, moveCount |-> 0,
     isCrouching |-> FALSE, isClimbing |-> FALSE, isFlying |-> FALSE,
     invincibilityTimer |-> 0]

isBig(p) == p.firstTile = FIRST_PLAYER_TILE_BIG

isSmall(p) == p.firstTile = FIRST_PLAYER_TILE_SMALL

grow(p) == [p EXCEPT !.firstTile = FIRST_PLAYER_TILE_BIG,
                     !.heightOffset = PLAYER_HEIGHT_OFFSET_BIG]

shrink(p) == [p EXCEPT !.firstTile = FIRST_PLAYER_TILE_SMALL,
                       !.heightOffset = PLAYER_HEIGHT_OFFSET_SMALL]

isInvincible(p) == p.invincibilityTimer > 0

crouch(p) == [p EXCEPT !.isCrouching = TRUE]

stand(p) == [p EXCEPT !.isCrouching = FALSE]

startClimbing(p) == [p EXCEPT !.isClimbing = TRUE, !.dx = 0, !.dy = 0]

\* climb() adding the climbing rate to the vertical speed
climb_addingToDy(p, direction) ==
    LET p1 == IF ~p.isClimbing THEN startClimbing(p) ELSE p
    IN  [p1 EXCEPT !.dy = p.dy + PLAYER_CLIMBING_RATE * direction]

climb(p, direction) ==
    LET p1 == IF ~p.isClimbing THEN startClimbing(p) ELSE p
    IN  [p1 EXCEPT !.dy = PLAYER_CLIMBING_RATE * direction]

climbUp(p) == climb(p, -1)

climbDown(p) == climb(p, 1)

canClimb(p) == getTileNumberBehind(p) \in CLIMBABLE_TILES

\* die() without the reset of the velocity
die_keepingVelocity(p) ==
    [grow(p) EXCEPT !.facingRight = TRUE,
                    !.x = playerStartingPosition(p.map)[1],
                    !.y = playerStartingPosition(p.map)[2]]

die(p) ==
    [grow(p) EXCEPT !.facingRight = TRUE,
                    !.x = playerStartingPosition(p.map)[1],
                    !.y = playerStartingPosition(p.map)[2],
                    !.dx = 0, !.dy = 0]

\* takeDamage() without the test of the invincibility timer
takeDamage_ignoringTimer(p) ==
    IF isSmall(p) THEN die(p)
    ELSE [shrink(p) EXCEPT !.invincibilityTimer = INVINCIBILITY_AFTER_DAMAGE]

takeDamage(p) ==
    IF ~isInvincible(p)
    THEN IF isSmall(p) THEN die(p)
         ELSE [shrink(p) EXCEPT !.invincibilityTimer = INVINCIBILITY_AFTER_DAMAGE]
    ELSE p

\* PlayerCharacter.gameLogic, "Check for damage and death"
checkDamage(p) ==
    IF getTileNumberBelow(p) = SPIKE_TILE THEN takeDamage(p)
    ELSE IF p.y + p.heightOffset > mapHeight(p.map) * MAP_TILE_SIZE THEN die(p)
    ELSE p

\* "Check invincibility timer"
checkTimer(p) ==
    IF p.invincibilityTimer > 0
    THEN [p EXCEPT !.invincibilityTimer = p.invincibilityTimer - 1]
    ELSE p

\* checkStance standing up only when a key other than a crouch key is held
checkStance_keepCrouching(p, ks) ==
    LET p1 == IF p.isCrouching /\ K_DOWN \notin ks /\ K_s \notin ks /\ ks # {}
              THEN stand(p) ELSE p
    IN  IF p1.isClimbing
        THEN IF ~canClimb(p1) THEN [p1 EXCEPT !.isClimbing = FALSE]
             ELSE [p1 EXCEPT !.dy = 0]
        ELSE p1

\* "Check crouching/climbing status"
checkStance(p, ks) ==
    LET p1 == IF p.isCrouching /\ K_DOWN \notin ks /\ K_s \notin ks
              THEN stand(p) ELSE p
    IN  IF p1.isClimbing
        THEN IF ~canClimb(p1) THEN [p1 EXCEPT !.isClimbing = FALSE]
             ELSE [p1 EXCEPT !.dy = 0]
        ELSE p1

\* "Horizontal acceleration"
accelerateX(p, ks) ==
    LET p1 == applyFriction(p)
        p2 == IF K_LEFT \in ks \/ K_a \in ks THEN left(p1) ELSE p1
    IN  IF K_RIGHT \in ks \/ K_d \in ks THEN right(p2) ELSE p2

\* "Vertical acceleration"
accelerateY(p, nks) ==
    LET p1 == applyGravity(p)
    IN  IF K_SPACE \in nks THEN jump(p1) ELSE p1

\* "Climbing"
checkClimb(p, ks) ==
    IF (K_UP \in ks \/ K_w \in ks) /\ canClimb(p) THEN climbUp(p)
    ELSE IF (K_DOWN \in ks \/ K_s \in ks) /\ canClimb(p) THEN climbDown(p)
    ELSE p

\* "Crouching"
checkCrouch(p, ks) ==
    IF (K_DOWN \in ks \/ K_s \in ks) /\ ~p.isClimbing THEN crouch(p) ELSE p

\* the player as move() finds it
beforeMove(p, ks, nks) ==
    checkCrouch(checkClimb(accelerateY(accelerateX(
        checkStance(checkTimer(p), ks), ks), nks), ks), ks)

PlayerGameLogic(p, ks, nks) == move(beforeMove(checkDamage(p), ks, nks))

----------------------------------------------------------------------------
(* characters.py: NonPlayerCharacter *)

\* NonPlayerCharacter.__init__ with the default of facingRight turned round
NonPlayerCharacter_facingRight(ID, m, x, y, slot) ==
    [ID |-> ID, map |-> m, x |-> x, y |-> y, dx |-> 0, dy |-> 0,
     facingRight |-> TRUE,
     heightOffset |-> DEFAULT_HEIGHT_OFFSET,
     currentStance |-> 0, moveCount |-> 0,
     isCrouching |-> FALSE, isClimbing |-> FALSE,
     isFlying |-> (ID = SPARK \/ ID = ALBATOSS \/ ID = PHANTO),
     slot |-> slot]

NonPlayerCharacter(ID, m, x, y, slot) ==
    [ID |-> ID, map |-> m, x |-> x, y |-> y, dx |-> 0, dy |-> 0,
     facingRight |-> FALSE,
     heightOffset |-> DEFAULT_HEIGHT_OFFSET,
     currentStance |-> 0, moveCount |-> 0,
     isCrouching |-> FALSE, isClimbing |-> FALSE,
     isFlying |-> (ID = SPARK \/ ID = ALBATOSS \/ ID = PHANTO),
     slot |-> slot]

\* the orientation check looking a tile-width offset further to the right
mustTurn_lookingAhead(c) ==
    \/ c.facingRight
         /\ isColliding(c, c.x + CHARACTER_TILE_SIZE - widthOffset(c) * 2, c.y)
    \/ ~c.facingRight /\ isColliding(c, c.x - 1, c.y)

\* "Check for a change in orientation"
mustTurn(c) ==
    \/ c.facingRight
         /\ isColliding(c, c.x + CHARACTER_TILE_SIZE - widthOffset(c) * 3, c.y)
    \/ ~c.facingRight /\ isColliding(c, c.x - 1, c.y)
    \/ c.isFlying
         /\ \/ ~c.facingRight /\ c.x - 1 <= 0
            \/ c.facingRight
                 /\ c.x + CHARACTER_TILE_SIZE - widthOffset(c) * 2
                      >= mapWidth(c.map) * MAP_TILE_SIZE
    \/ c.ID = SHY_GUY_BLUE /\ willFall(c)

checkTurn(c) ==
    IF mustTurn(c) THEN [c EXCEPT !.facingRight = ~c.facingRight, !.dx = -c.dx]
    ELSE c

\* the NPC as move() finds it
npcBeforeMove(c) ==
    LET c1 == applyFriction(checkTurn(c))
        c2 == IF c1.facingRight THEN right(c1) ELSE left(c1)
        c3 == applyGravity(c2)
    IN  IF c3.ID = NINJI THEN jump(c3) ELSE c3

NPCGameLogic(c) == move(npcBeforeMove(c))

----------------------------------------------------------------------------
(* toads_adventure.py: ToadsAdventure *)

\* what one call did: op names the method, who the character (0 the player,
\* else the NPC's place in the level's NPC list), pre and post its argument
\* and result
Step(op, who, pre, post) == [op |-> op, who |-> who, pre |-> pre, post |-> post]

RECURSIVE loadNPCs(_, _)
loadNPCs(m, i) ==
    IF i > Len(NPC_LOCATIONS[m]) THEN << >>
    ELSE << NonPlayerCharacter(NPC_LOCATIONS[m][i][1], m,
                               (NPC_LOCATIONS[m][i][2] - 1) * MAP_TILE_SIZE,
                               (NPC_LOCATIONS[m][i][3] - 1) * MAP_TILE_SIZE,
                               i) >>
         \o loadNPCs(m, i + 1)

loadLevel(level) == [player |-> PlayerCharacter(level), NPCs |-> loadNPCs(level, 1)]

\* the wrap-around test off by one
nextLevel_wrapEarly(level) == IF level + 1 >= NUM_LEVELS THEN 1 ELSE level + 1

nextLevel(level) == IF level + 1 > NUM_LEVELS THEN 1 ELSE level + 1

levelComplete(p) == getTileNumberBehind(p) = OPEN_DOOR

departed(level, npc) ==
    npc.y + npc.heightOffset > mapHeight(level) * MAP_TILE_SIZE

RemoveAt(list, i) ==
    [j \in 1 .. Len(list) - 1 |-> IF j < i THEN list[j] ELSE list[j + 1]]

\* the player as self.applyFriction() finds it in gameLogic
atFriction(p, ks) == checkStance(checkTimer(checkDamage(p)), ks)

\* the player as self.jump() finds it in gameLogic
atJump(p, ks) == applyGravity(accelerateX(atFriction(p, ks), ks))

\* the steps of PlayerCharacter.gameLogic on p
playerSteps(p, ks, nks) ==
    LET p1 == checkDamage(p)
        p2 == beforeMove(p1, ks, nks)
        p3 == move(p2)
    IN  (IF getTileNumberBelow(p) = SPIKE_TILE
         THEN << Step("takeDamage", 0, p, p1) >>
         ELSE IF p.y + p.heightOffset > mapHeight(p.map) * MAP_TILE_SIZE
         THEN << Step("die", 0, p, p1) >> ELSE << >>)
        \o << Step("applyFriction", 0, atFriction(p, ks),
                   applyFriction(atFriction(p, ks))) >>
        \o (IF K_SPACE \in nks
            THEN << Step("jump", 0, atJump(p, ks), jump(atJump(p, ks))) >>
            ELSE << >>)
        \o << Step("move", 0, p2, p3), Step("gameLogic", 0, p, p3) >>

\* the NPC as self.jump() finds it in gameLogic
npcAtJump(c) ==
    applyGravity(IF applyFriction(checkTurn(c)).facingRight
                 THEN right(applyFriction(checkTurn(c)))
                 ELSE left(applyFriction(checkTurn(c))))

\* the steps of NonPlayerCharacter.gameLogic on c
npcSteps(c) ==
    << Step("turn", c.slot, c, checkTurn(c)),
       Step("applyFriction", c.slot, checkTurn(c), applyFriction(checkTurn(c))) >>
    \o (IF c.ID = NINJI
        THEN << Step("jump", c.slot, npcAtJump(c), jump(npcAtJump(c))) >>
        ELSE << >>)
    \o << Step("move", c.slot, npcBeforeMove(c), NPCGameLogic(c)),
          Step("gameLogic", c.slot, c, NPCGameLogic(c)) >>

RECURSIVE npcLoop(_, _, _, _, _)

\* the loop with the removal of an NPC costing the player a hit
npcLoop_hitOnRemoval(level, i, list, p, steps) ==
    IF i > Len(list) THEN [player |-> p, NPCs |-> list, steps |-> steps]
    ELSE LET npc  == list[i]
             hit  == isOverlapping(npc, p)
             p1   == IF hit THEN takeDamage(p) ELSE p
             s1   == steps \o << Step("visit", npc.slot, npc, p) >>
                     \o (IF hit THEN << Step("takeDamage", npc.slot, p, p1) >>
                         ELSE << >>)
         IN  IF departed(level, npc)
             THEN npcLoop(level, i + 1, RemoveAt(list, i), takeDamage(p),
                          s1 \o << Step("remove", npc.slot, npc, npc) >>)
             ELSE npcLoop(level, i + 1, [list EXCEPT ![i] = NPCGameLogic(npc)],
                          p1, s1 \o npcSteps(npc))

\* the loop with each overlap test made once the NPC has moved
npcLoop_testAfterMove(level, i, list, p, steps) ==
    IF i > Len(list) THEN [player |-> p, NPCs |-> list, steps |-> steps]
    ELSE IF departed(level, list[i])
    THEN npcLoop(level, i + 1, RemoveAt(list, i),
                 IF isOverlapping(list[i], p) THEN takeDamage(p) ELSE p,
                 steps \o << Step("visit", list[i].slot, list[i], p) >>
                       \o (IF isOverlapping(list[i], p)
                           THEN << Step("takeDamage", list[i].slot, p, takeDamage(p)) >>
                           ELSE << >>)
                       \o << Step("remove", list[i].slot, list[i], list[i]) >>)
    ELSE npcLoop(level, i + 1, [list EXCEPT ![i] = NPCGameLogic(list[i])],
                 IF isOverlapping(NPCGameLogic(list[i]), p) THEN takeDamage(p) ELSE p,
                 steps \o npcSteps(list[i])
                       \o << Step("visit", list[i].slot, NPCGameLogic(list[i]), p) >>
                       \o (IF isOverlapping(NPCGameLogic(list[i]), p)
                           THEN << Step("takeDamage", list[i].slot, p, takeDamage(p)) >>
                           ELSE << >>))

\* "for NPC in self.NPCs": the list iterator holds an index, i, into the
\* list as it is now; self.NPCs.remove(NPC) shortens the list under it
npcLoop(level, i, list, p, steps) ==
    IF i > Len(list) THEN [player |-> p, NPCs |-> list, steps |-> steps]
    ELSE LET npc  == list[i]
             hit  == isOverlapping(npc, p)
             p1   == IF hit THEN takeDamage(p) ELSE p
             s1   == steps \o << Step("visit", npc.slot, npc, p) >>
                     \o (IF hit THEN << Step("takeDamage", npc.slot, p, p1) >>
                         ELSE << >>)
         IN  IF departed(level, npc)
             THEN npcLoop(level, i + 1, RemoveAt(list, i), p1,
                          s1 \o << Step("remove", npc.slot, npc, npc) >>)
             ELSE npcLoop(level, i + 1, [list EXCEPT ![i] = NPCGameLogic(npc)],
                          p1, s1 \o npcSteps(npc))

\* the else branch with the NPCs served before the player
levelLogic_npcsFirst(level, p, list, ks, nks) ==
    LET r  == npcLoop(level, 1, list, p, << >>)
        ps == playerSteps(r.player, ks, nks)
    IN  [player |-> ps[Len(ps)].post, NPCs |-> r.NPCs, steps |-> r.steps \o ps]

\* ToadsAdventure.gameLogic, the else branch
levelLogic(level, p, list, ks, nks) ==
    LET ps == playerSteps(p, ks, nks)
    IN  npcLoop(level, 1, list, ps[Len(ps)].post, ps)

----------------------------------------------------------------------------
(* game.py: Game.mainLoop.  A frame is one pass of the loop: the batch of   *)
(* events pygame.event.get() returns, then gameLogic(keys, newKeys).       *)

MaxKeyEvents == 2
MaxBatch == 2
InputFrames == 6

InputKeys == {K_LEFT, K_RIGHT, K_SPACE, K_UP, K_DOWN}

Events == [type : {"KEYDOWN", "KEYUP"}, key : InputKeys]

Batches == UNION {[1 .. n -> Events] : n \in 0 .. MaxBatch}

\* the keyboard sends KEYDOWN for a key that is up and KEYUP for one that is down
RECURSIVE possible(_, _, _)
possible(down, batch, i) ==
    IF i > Len(batch) THEN TRUE
    ELSE /\ (batch[i].type = "KEYDOWN") = (batch[i].key \notin down)
         /\ possible(IF batch[i].type = "KEYDOWN" THEN down \cup {batch[i].key}
                     ELSE down \ {batch[i].key}, batch, i + 1)

\* the event loop reporting every key that is down as new
RECURSIVE processEvents_allHeld(_, _, _, _)
processEvents_allHeld(ks, nks, batch, i) ==
    IF i > Len(batch) THEN [keys |-> ks, newKeys |-> ks]
    ELSE IF batch[i].type = "KEYDOWN"
    THEN processEvents_allHeld(ks \cup {batch[i].key}, nks, batch, i + 1)
    ELSE processEvents_allHeld(ks \ {batch[i].key}, nks, batch, i + 1)

RECURSIVE processEvents(_, _, _, _)
processEvents(ks, nks, batch, i) ==
    IF i > Len(batch) THEN [keys |-> ks, newKeys |-> nks]
    ELSE IF batch[i].type = "KEYDOWN"
    THEN processEvents(ks \cup {batch[i].key}, nks \cup {batch[i].key}, batch, i + 1)
    ELSE processEvents(ks \ {batch[i].key}, nks, batch, i + 1)

\* the batches this frame can get: every key event counts towards
\* MaxKeyEvents, and events come in the first InputFrames frames of a level
Deliverable ==
    IF numEvents >= MaxKeyEvents \/ frame >= InputFrames THEN {<< >>}
    ELSE {batch \in Batches : /\ numEvents + Len(batch) <= MaxKeyEvents
                              /\ possible(keys, batch, 1)}

\* the events that make mainLoop return
QuitEvents == {[type |-> "QUIT", key |-> "none"], [type |-> "KEYDOWN", key |-> K_ESCAPE]}

\* the batches that can come before such an event
Quittable ==
    {batch \in Deliverable : /\ numEvents + Len(batch) < MaxKeyEvents
                             /\ frame < InputFrames}

\* the keys whose last event so far is a KEYDOWN
heldAfter(down, batch) ==
    {k \in InputKeys :
        LET of == {i \in 1 .. Len(batch) : batch[i].key = k}
        IN  IF of = {} THEN k \in down
            ELSE \E i \in of : /\ \A j \in of : j <= i
                                /\ batch[i].type = "KEYDOWN"}

\* the keys with a KEYDOWN in the batch
pressedIn(batch) ==
    {batch[i].key : i \in {j \in 1 .. Len(batch) : batch[j].type = "KEYDOWN"}}

\* "for e in pygame.event.get()" on a batch without a quit event
Input(batch) ==
    /\ running
    /\ numEvents' = numEvents + Len(batch)
    /\ keys' = processEvents(keys, {}, batch, 1).keys
    /\ newKeys' = processEvents(keys, {}, batch, 1).newKeys
    /\ held' = heldAfter(held, batch)
    /\ pressed' = pressedIn(batch)
    /\ UNCHANGED running

\* the record of a frame: the level, player and NPC list gameLogic found,
\* and the calls it made, in order
Log(kind, steps) ==
    [kind |-> kind, level |-> currentLevel, player |-> player, NPCs |-> NPCs,
     steps |-> steps]

Indices(steps, op) == {k \in 1 .. Len(steps) : steps[k].op = op}

hurts(step) == step.op = "takeDamage" /\ isBig(step.pre) /\ isSmall(step.post)

kills(step) ==
    \/ step.op = "die"
    \/ step.op = "takeDamage" /\ isSmall(step.pre) /\ step.post # step.pre

\* the number of this frame, counted from the frame in which a big player
\* was last hurt (frame 0); 0 while there is no such frame, or once the
\* player has died since; counted up to INVINCIBILITY_AFTER_DAMAGE + 1
age ==
    LET last == {k \in 1 .. Len(log.steps) : hurts(log.steps[k]) \/ kills(log.steps[k])}
        k    == CHOOSE k \in last : \A j \in last : j <= k
    IN  IF log.kind # "logic" THEN 0
        ELSE IF last # {} THEN (IF hurts(log.steps[k]) THEN 1 ELSE 0)
        ELSE IF sinceDamage = 0 THEN 0
        ELSE IF sinceDamage > INVINCIBILITY_AFTER_DAMAGE THEN sinceDamage
        ELSE sinceDamage + 1

\* gameLogic with the else missing: the level just loaded runs its logic too
LevelComplete_thenLogic(batch) ==
    /\ Input(batch)
    /\ levelComplete(player)
    /\ currentLevel' = nextLevel(currentLevel)
    /\ \E r \in {levelLogic(currentLevel', loadLevel(currentLevel').player,
                            loadLevel(currentLevel').NPCs, keys', newKeys')} :
           /\ player' = r.player
           /\ NPCs' = r.NPCs
           /\ log' = Log("complete", r.steps)
    /\ frame' = 0
    /\ sinceDamage' = 0

\* a frame whose gameLogic finds the level complete
LevelComplete(batch) ==
    /\ Input(batch)
    /\ levelComplete(player)
    /\ currentLevel' = nextLevel(currentLevel)
    /\ player' = loadLevel(currentLevel').player
    /\ NPCs' = loadLevel(currentLevel').NPCs
    /\ frame' = 0
    /\ log' = Log("complete", << >>)
    /\ sinceDamage' = 0

\* a frame whose gameLogic runs the characters
LevelLogic(batch) ==
    /\ Input(batch)
    /\ ~levelComplete(player)
    /\ \E r \in {levelLogic(currentLevel, player, NPCs, keys', newKeys')} :
           /\ player' = r.player
           /\ NPCs' = r.NPCs
           /\ log' = Log("logic", r.steps)
    /\ sinceDamage' = age
    /\ frame' = IF frame < InputFrames THEN frame + 1 ELSE frame
    /\ UNCHANGED currentLevel

\* a frame whose batch holds a QUIT or an ESCAPE KEYDOWN after the events
\* of batch: mainLoop returns before it calls gameLogic
Quit(batch, e) ==
    /\ running
    /\ e \in QuitEvents
    /\ numEvents' = numEvents + Len(batch) + 1
    /\ keys' = processEvents(keys, {}, batch, 1).keys
    /\ newKeys' = processEvents(keys, {}, batch, 1).newKeys
    /\ held' = heldAfter(held, batch)
    /\ pressed' = pressedIn(batch)
    /\ running' = FALSE
    /\ log' = Log("quit", << >>)
    /\ UNCHANGED <<currentLevel, player, NPCs, frame, sinceDamage>>

Init ==
    /\ currentLevel \in 1 .. NUM_LEVELS
    /\ player = loadLevel(currentLevel).player
    /\ NPCs = loadLevel(currentLevel).NPCs
    /\ keys = {}
    /\ newKeys = {}
    /\ running = TRUE
    /\ held = {}
    /\ pressed = {}
    /\ numEvents = 0
    /\ frame = 0
    /\ log = Log("init", << >>)
    /\ sinceDamage = 0

Next ==
    \/ \E batch \in Deliverable : LevelComplete(batch)
    \/ \E batch \in Deliverable : LevelLogic(batch)
    \/ \E batch \in Quittable, e \in QuitEvents : Quit(batch, e)

Spec == Init /\ [][Next]_vars

\* no frame can change the state: the loop has returned, or no more key
\* events come and the frame without events leaves every variable as it is
settled ==
    \/ ~running
    \/ /\ Deliverable = {<< >>}
       /\ ~levelComplete(player)
       /\ newKeys = {} /\ pressed = {}
       /\ frame >= InputFrames
       /\ sinceDamage = age
       /\ \E r \in {levelLogic(currentLevel, player, NPCs, keys, {})} :
              /\ player = r.player
              /\ NPCs = r.NPCs
              /\ log = Log("logic", r.steps)

\* NPC_LOCATIONS entries for level 1, one at a time: ledge-avoiding Shy Guys
\* on and beside the two platforms, and the flyers in the open sky
Aviary ==
    {<<SHY_GUY_BLUE, 9, 4>>, <<SHY_GUY_BLUE, 10, 4>>, <<SHY_GUY_BLUE, 11, 4>>,
     <<SHY_GUY_BLUE, 12, 4>>, <<SHY_GUY_BLUE, 13, 4>>,
     <<SPARK, 3, 1>>, <<ALBATOSS, 8, 1>>, <<PHANTO, 12, 1>>}

\* level 1 loaded with one of them
InitAviary ==
    /\ currentLevel = 1
    /\ player = loadLevel(currentLevel).player
    /\ \E loc \in Aviary :
           NPCs = << NonPlayerCharacter(loc[1], currentLevel,
                                        (loc[2] - 1) * MAP_TILE_SIZE,
                                        (loc[3] - 1) * MAP_TILE_SIZE, 1) >>
    /\ keys = {}
    /\ newKeys = {}
    /\ running = TRUE
    /\ held = {}
    /\ pressed = {}
    /\ numEvents = 0
    /\ frame = 0
    /\ log = Log("init", << >>)
    /\ sinceDamage = 0

\* a frame without key events
Idle == LevelLogic(<< >>)

\* the main loop on that level, the keyboard left alone
SpecAviary == InitAviary /\ [][Idle]_vars

\* isOverlapping on its own: a big or a small player where level 1 puts it
\* and a Shy Guy up to Near pixels away on either axis
Near == 28

InitOverlap ==
    /\ currentLevel = 1
    /\ player \in {loadLevel(currentLevel).player, shrink(loadLevel(currentLevel).player)}
    /\ \E ddx \in (- Near) .. Near, ddy \in (- Near) .. Near :
           NPCs = << NonPlayerCharacter(SHY_GUY_RED, currentLevel,
                                        player.x + ddx, player.y + ddy, 1) >>
    /\ keys = {}
    /\ newKeys = {}
    /\ running = TRUE
    /\ held = {}
    /\ pressed = {}
    /\ numEvents = 0
    /\ frame = 0
    /\ log = Log("init", << >>)
    /\ sinceDamage = 0

\* the overlap test of ToadsAdventure.gameLogic, asked of either character
\* and of each character about itself
Overlap ==
    /\ log.kind = "init"
    /\ log' = [kind |-> "isOverlapping", level |-> currentLevel,
               player |-> player, NPCs |-> NPCs, steps |-> << >>,
               npcPlayer |-> isOverlapping(NPCs[1], player),
               playerNpc |-> isOverlapping(player, NPCs[1]),
               npcNpc |-> isOverlapping(NPCs[1], NPCs[1]),
               playerPlayer |-> isOverlapping(player, player)]
    /\ UNCHANGED <<currentLevel, player, NPCs, keys, newKeys, running, held,
                   pressed, numEvents, frame, sinceDamage>>

SpecOverlap == InitOverlap /\ [][Overlap]_vars

----------------------------------------------------------------------------
(* Properties *)

Characters == {player} \cup {NPCs[i] : i \in 1 .. Len(NPCs)}

\* every character a call of the last frame took or returned
Logged ==
    {log.player} \cup {log.NPCs[i] : i \in 1 .. Len(log.NPCs)}
    \cup {log.steps[k].pre : k \in 1 .. Len(log.steps)}
    \cup {log.steps[k].post : k \in 1 .. Len(log.steps)}

\* C1: every character, in every state and at every call of a frame, has
\* |dx| <= maxSpeedX and |dy| <= maxSpeedY
C1_SpeedWithinMaxima ==
    \A c \in Characters \cup Logged :
        /\ Abs(c.dx) <= maxSpeedX(c)
        /\ Abs(c.dy) <= maxSpeedY(c)

\* the player has run into both maxima, and an NPC moves at its maximum
C1_Witness ==
    /\ Abs(player.dx) = PLAYER_MAX_SPEED_X
    /\ player.dy = PLAYER_MAX_SPEED_Y
    /\ \E k \in Indices(log.steps, "move") :
           /\ log.steps[k].who # 0
           /\ Abs(log.steps[k].post.dx) = DEFAULT_NPC_MAX_SPEED_X

\* one of the eight sample points of c's footprint at (x, y) is in a solid tile
inSolid(c, x, y) ==
    LET xs == {x + widthOffset(c), x + CHARACTER_TILE_SIZE \div 2,
               x + (CHARACTER_TILE_SIZE - 1) - widthOffset(c)}
        ys == {y + c.heightOffset, y + CHARACTER_TILE_SIZE \div 2,
               y + (CHARACTER_TILE_SIZE - 1)}
    IN  \E px \in xs, py \in ys :
            /\ ~(px = x + CHARACTER_TILE_SIZE \div 2 /\ py = y + CHARACTER_TILE_SIZE \div 2)
            /\ getTileNumberAt(c.map, px, py) \in SOLID_TILES

\* the bottom-left or bottom-right sample point of c's footprint at (x, y) is
\* in a top-solid tile
inTopSolid(c, x, y) ==
    \E px \in {x + widthOffset(c), x + (CHARACTER_TILE_SIZE - 1) - widthOffset(c)} :
        getTileNumberAt(c.map, px, y + (CHARACTER_TILE_SIZE - 1)) \in TOP_SOLID_TILES

Between(a, b) == IF a <= b THEN a .. b ELSE b .. a

\* the positions a move() from pre to post stepped into: along x, then along y
Entered(pre, post) ==
    {<<x, pre.y>> : x \in Between(pre.x, post.x) \ {pre.x}}
    \cup {<<post.x, y>> : y \in Between(pre.y, post.y) \ {pre.y}}

\* C2: a move() that starts where isColliding is false ends where it is false;
\* no position it steps into has a sample point in a solid tile, nor, when
\* dy >= 0, a bottom corner in a top-solid tile; and after every frame no
\* character has a sample point in a solid tile
C2_MoveNeverCollides ==
    /\ \A k \in Indices(log.steps, "move") :
           LET pre == log.steps[k].pre
               post == log.steps[k].post
           IN  /\ ~isColliding(pre, pre.x, pre.y) => ~isColliding(post, post.x, post.y)
               /\ \A pos \in Entered(pre, post) :
                      /\ ~inSolid(pre, pos[1], pos[2])
                      /\ pre.dy >= 0 => ~inTopSolid(pre, pos[1], pos[2])
    /\ \A c \in Characters : ~inSolid(c, c.x, c.y)

\* a move() came down onto a one-way ledge and was stopped by it, and the
\* same move() was stopped short of its horizontal distance by a solid tile
C2_Witness ==
    \E k \in Indices(log.steps, "move") :
        LET pre == log.steps[k].pre
            post == log.steps[k].post
        IN  /\ pre.dy > 0 /\ post.y > pre.y
            /\ post.y - pre.y < roundUp(pre.dy)
            /\ inTopSolid(post, post.x, post.y + 1)
            /\ ~inSolid(post, post.x, post.y + 1)
            /\ roundUp(Abs(pre.dx)) > Abs(post.x - pre.x)

\* C3: a call of takeDamage() has one of three outcomes: with the timer
\* positive, nothing changes; else a Small player dies; else a Big player
\* becomes Small with the Small height offset and the timer armed, and
\* nothing else (position, velocity) changes
C3_TakeDamageOutcomes ==
    \A k \in Indices(log.steps, "takeDamage") :
        LET pre == log.steps[k].pre
            post == log.steps[k].post
        IN  IF pre.invincibilityTimer > 0 THEN post = pre
            ELSE IF pre.firstTile = FIRST_PLAYER_TILE_SMALL THEN post = die(pre)
            ELSE /\ pre.firstTile = FIRST_PLAYER_TILE_BIG
                 /\ post = [pre EXCEPT
                               !.firstTile = FIRST_PLAYER_TILE_SMALL,
                               !.heightOffset = PLAYER_HEIGHT_OFFSET_SMALL,
                               !.invincibilityTimer = INVINCIBILITY_AFTER_DAMAGE]

\* a Small player whose timer had run out was hit by an NPC and died
C3_Witness ==
    \E k \in Indices(log.steps, "takeDamage") :
        /\ log.steps[k].who # 0
        /\ log.steps[k].pre.firstTile = FIRST_PLAYER_TILE_SMALL
        /\ log.steps[k].pre.invincibilityTimer = 0
        /\ log.steps[k].post.firstTile = FIRST_PLAYER_TILE_BIG

\* C4: after the frame in which a Big player takes damage, every takeDamage()
\* of the next 150 frames is a no-op and the first one after them takes
\* effect, whether it comes from a spike or from an NPC; the timer is not
\* re-armed while positive and goes down by one per player gameLogic
C4_InvincibleFor150Frames ==
    LET calls == Indices(log.steps, "takeDamage")
        first == CHOOSE k \in calls : \A j \in calls : k <= j
    IN  /\ sinceDamage \in 1 .. INVINCIBILITY_AFTER_DAMAGE =>
               \A k \in calls : log.steps[k].post = log.steps[k].pre
        /\ sinceDamage > INVINCIBILITY_AFTER_DAMAGE /\ calls # {} =>
               log.steps[first].post # log.steps[first].pre
        /\ \A k \in calls :
               log.steps[k].pre.invincibilityTimer > 0 =>
                   log.steps[k].post.invincibilityTimer
                       = log.steps[k].pre.invincibilityTimer
        /\ \A k \in Indices(log.steps, "move") :
               log.steps[k].who = 0 /\ log.player.invincibilityTimer > 0 =>
                   log.steps[k].post.invincibilityTimer
                       = log.player.invincibilityTimer - 1

AtStart(p) ==
    /\ p.facingRight
    /\ <<p.x, p.y>> = playerStartingPosition(p.map)
    /\ p.dx = 0 /\ p.dy = 0

\* C5 as claimed: at the end of a frame in which the player died, by the spike
\* or out-of-bounds check of its own logic or by an NPC's overlap, the player
\* is Big, facing right, at the start coordinates, with dx = 0 and dy = 0
C5_RespawnedAtEndOfFrame ==
    (\E k \in 1 .. Len(log.steps) : kills(log.steps[k])) =>
        /\ player.firstTile = FIRST_PLAYER_TILE_BIG
        /\ AtStart(player)

\* C5 as amended: die() returns the player Big, facing right, at the start
\* coordinates, with zero velocity; when an NPC's overlap was what killed, the
\* player ends the frame facing right at the start coordinates with zero
\* velocity, and Big unless a takeDamage() later in the frame shrank it
C5_RespawnedByDie ==
    \A k \in 1 .. Len(log.steps) :
        kills(log.steps[k]) =>
            /\ log.steps[k].post.firstTile = FIRST_PLAYER_TILE_BIG
            /\ AtStart(log.steps[k].post)
            /\ log.steps[k].who # 0 =>
                   /\ AtStart(player)
                   /\ \/ player.firstTile = FIRST_PLAYER_TILE_BIG
                      \/ \E j \in Indices(log.steps, "takeDamage") :
                             j > k /\ hurts(log.steps[j])

\* the player, away from the start coordinates, was killed by an NPC's overlap
C5_Witness ==
    \E k \in Indices(log.steps, "takeDamage") :
        /\ kills(log.steps[k])
        /\ log.steps[k].who # 0
        /\ ~AtStart(log.steps[k].pre)

\* the slots of the NPCs the last frame's loop visited, in the order of the visits
Visited ==
    LET visits == SelectSeq(log.steps, LAMBDA step : step.op = "visit")
    IN  [k \in 1 .. Len(visits) |-> visits[k].who]

\* the number of steps op the last frame took for the NPC in slot
Count(op, slot) ==
    Cardinality({k \in Indices(log.steps, op) : log.steps[k].who = slot})

\* C6: in a frame that is not an exit, the NPCs of the roster at the start of
\* the frame are visited once each, in roster order; each is tested for
\* overlap and then removed, if it is below the map, or else has its
\* gameLogic run once; none is skipped, also when an earlier one is removed
C6_EveryNPCVisitedOnce ==
    log.kind = "logic" =>
        /\ Visited = [i \in 1 .. Len(log.NPCs) |-> log.NPCs[i].slot]
        /\ \A i \in 1 .. Len(log.NPCs) :
               LET npc == log.NPCs[i]
               IN  IF npc.y + npc.heightOffset > mapHeight(log.level) * MAP_TILE_SIZE
                   THEN Count("remove", npc.slot) = 1 /\ Count("gameLogic", npc.slot) = 0
                   ELSE Count("remove", npc.slot) = 0 /\ Count("gameLogic", npc.slot) = 1

\* C7: an NPC that is below the map at the start of a frame that is not an
\* exit is not in the roster at the end of the frame, wherever it is in the
\* roster
C7_FallenNPCAbsent ==
    log.kind = "logic" =>
        \A i \in 1 .. Len(log.NPCs) :
            log.NPCs[i].y + log.NPCs[i].heightOffset
                > mapHeight(log.level) * MAP_TILE_SIZE
            => \A j \in 1 .. Len(NPCs) : NPCs[j].slot # log.NPCs[i].slot

Unhurt(pre, post) ==
    /\ post.firstTile = pre.firstTile
    /\ post.invincibilityTimer = pre.invincibilityTimer
    /\ <<post.x, post.y>> = <<pre.x, pre.y>>
    /\ <<post.dx, post.dy>> = <<pre.dx, pre.dy>>

\* C8 as claimed: an NPC removed in a frame changes nothing of the player's
\* health tier, invincibilityTimer, position or velocity in that frame
C8_RemovedNPCLeavesPlayer ==
    \A j \in Indices(log.steps, "remove") :
        \A k \in Indices(log.steps, "takeDamage") :
            log.steps[k].who = log.steps[j].who =>
                Unhurt(log.steps[k].pre, log.steps[k].post)

\* the player when the loop left the NPC that step j removed
After(j) == IF j = Len(log.steps) THEN player ELSE log.steps[j + 1].post

\* C8 as amended: the removal itself changes nothing of the player; an NPC
\* removed in a frame changes the player only if it overlaps the player when
\* it is visited, and then as takeDamage() does
C8_RemovedNPCOnlyHitsByOverlap ==
    \A j \in Indices(log.steps, "remove") :
        \E v \in Indices(log.steps, "visit") :
            /\ v < j /\ log.steps[v].who = log.steps[j].who
            /\ LET npc == log.steps[v].pre
                   p == log.steps[v].post
               IN  IF isOverlapping(npc, p)
                   THEN /\ log.steps[v + 1].op = "takeDamage"
                        /\ log.steps[v + 1].pre = p
                        /\ After(j) = log.steps[v + 1].post
                   ELSE j = v + 1 /\ After(j) = p

\* an NPC below the map overlapped a Big player, made it Small and was
\* removed, all in one frame
C8_Witness ==
    \E j \in Indices(log.steps, "remove") :
        \E k \in Indices(log.steps, "takeDamage") :
            /\ log.steps[k].who = log.steps[j].who
            /\ hurts(log.steps[k])

\* C9: a call of gameLogic that finds the open door behind the player, and
\* no other, advances currentLevel by one, from NUM_LEVELS to 1, and loads that
\* level's map, player and roster; currentLevel stays within 1 .. NUM_LEVELS
C9_LevelAdvances ==
    /\ currentLevel \in 1 .. NUM_LEVELS
    /\ (log.kind = "complete") <=>
           (/\ log.kind # "init" /\ log.kind # "quit"
            /\ getTileNumberBehind(log.player) = OPEN_DOOR)
    /\ log.kind = "logic" => currentLevel = log.level
    /\ log.kind = "complete" =>
           /\ currentLevel = IF log.level = NUM_LEVELS THEN 1 ELSE log.level + 1
           /\ player.map = currentLevel
           /\ <<player.x, player.y>> = playerStartingPosition(currentLevel)
           /\ Len(NPCs) = Len(NPC_LOCATIONS[currentLevel])
           /\ \A i \in 1 .. Len(NPCs) :
                  /\ NPCs[i].map = currentLevel
                  /\ NPCs[i].ID = NPC_LOCATIONS[currentLevel][i][1]
                  /\ NPCs[i].x = (NPC_LOCATIONS[currentLevel][i][2] - 1) * MAP_TILE_SIZE
                  /\ NPCs[i].y = (NPC_LOCATIONS[currentLevel][i][3] - 1) * MAP_TILE_SIZE

\* the last level was completed and the first loaded
C9_Witness ==
    /\ log.kind = "complete"
    /\ log.level = NUM_LEVELS
    /\ currentLevel = 1

\* C10: a frame that completes a level runs none of the normal branch: no
\* player logic, no overlap test, removal or NPC logic, no damage and no
\* death, also with an NPC overlapping the player; the frame ends with the
\* next level as loaded
C10_ExitSkipsLogic ==
    log.kind = "complete" =>
        /\ log.steps = << >>
        /\ player.firstTile = FIRST_PLAYER_TILE_BIG
        /\ player.invincibilityTimer = 0
        /\ AtStart(player)
        /\ \A i \in 1 .. Len(NPCs) :
               /\ NPCs[i].dx = 0 /\ NPCs[i].dy = 0
               /\ NPCs[i].moveCount = 0 /\ ~NPCs[i].facingRight

\* a level was completed in a frame that began with an NPC overlapping a
\* player whose timer was not running
C10_Witness ==
    /\ log.kind = "complete"
    /\ log.player.invincibilityTimer = 0
    /\ \E i \in 1 .. Len(log.NPCs) : isOverlapping(log.NPCs[i], log.player)

\* an NPC that walks on the ground
walker(c) == c.ID # PLAYER /\ ~c.isFlying /\ c.ID # SHY_GUY_BLUE

\* a one-pixel step of c in the direction it faces would collide
blocked(c) ==
    isColliding(c, c.x + (IF c.facingRight THEN 1 ELSE -1), c.y)

\* C11: in every tick a ground NPC turns round (facingRight flipped, dx
\* negated, nothing else changed) if and only if a one-pixel step in the
\* direction it faces would collide, whichever way it faces
C11_TurnsWhenNextStepCollides ==
    \A k \in Indices(log.steps, "turn") :
        LET pre == log.steps[k].pre
            post == log.steps[k].post
        IN  walker(pre) =>
                IF blocked(pre)
                THEN post = [pre EXCEPT !.facingRight = ~pre.facingRight,
                                        !.dx = -pre.dx]
                ELSE post = pre

\* a Shy Guy has turned at a wall to its left, walked on with dx > 0 and,
\* in this tick, turns at a wall to its right
C11_Witness ==
    \E k \in Indices(log.steps, "turn") :
        LET pre == log.steps[k].pre
            post == log.steps[k].post
        IN  /\ walker(pre) /\ pre.facingRight /\ pre.dx > 0
            /\ ~post.facingRight /\ post.dx = -pre.dx
            /\ onGround(pre)

\* C12: a call of jump() on a grounded entity (isColliding at (x, y + 1))
\* leaves dy = -maxSpeedY and nothing else changed, a call on an entity not
\* grounded changes nothing, so dy changes exactly when the entity is
\* grounded; and the same for every dy the entity could have had in
\* -maxSpeedY .. maxSpeedY
C12_JumpOnlyFromGround ==
    \A k \in Indices(log.steps, "jump") :
        LET pre == log.steps[k].pre
            post == log.steps[k].post
        IN  /\ post.dy # pre.dy <=> isColliding(pre, pre.x, pre.y + 1)
            /\ post = jump(pre)
            /\ \A d \in (- maxSpeedY(pre)) .. maxSpeedY(pre) :
                   LET c == [pre EXCEPT !.dy = d]
                   IN  jump(c) = IF isColliding(c, c.x, c.y + 1)
                                 THEN [c EXCEPT !.dy = - maxSpeedY(c)]
                                 ELSE c

\* the player, standing with dy > 0, jumped: dy is now -maxSpeedY
C12_Witness ==
    \E k \in Indices(log.steps, "jump") :
        LET pre == log.steps[k].pre
            post == log.steps[k].post
        IN  /\ isColliding(pre, pre.x, pre.y + 1)
            /\ pre.dy > 0
            /\ post.dy = - maxSpeedY(pre)

\* the player, falling, called jump() and nothing changed
C12_WitnessInTheAir ==
    \E k \in Indices(log.steps, "jump") :
        LET pre == log.steps[k].pre
            post == log.steps[k].post
        IN  /\ ~isColliding(pre, pre.x, pre.y + 1)
            /\ pre.dy > 0
            /\ post = pre

\* the classes a tile id belongs to
classesOf(t) ==
    {cls \in {"solid", "topSolid", "nonSolid"} :
        \/ cls = "solid" /\ isSolid(t)
        \/ cls = "topSolid" /\ t \in TOP_SOLID_TILES
        \/ cls = "nonSolid" /\ isNonSolid(t)}

\* C14: every tile id in 0 .. 143 is in exactly one of SOLID_TILES,
\* TOP_SOLID_TILES and NON_SOLID_TILES, and is exactly one of solid
\* (isSolid), top-solid and non-solid (isNonSolid); so is the tile below
\* and the tile behind every character
C14_TileClassesPartition ==
    /\ \A t \in 0 .. 143 :
           /\ Cardinality({S \in {SOLID_TILES, TOP_SOLID_TILES, NON_SOLID_TILES} :
                               t \in S}) = 1
           /\ Cardinality(classesOf(t)) = 1
    /\ SOLID_TILES \cap TOP_SOLID_TILES = {}
    /\ SOLID_TILES \cap NON_SOLID_TILES = {}
    /\ TOP_SOLID_TILES \cap NON_SOLID_TILES = {}
    /\ \A c \in Characters :
           \A t \in {getTileNumberBelow(c), getTileNumberBehind(c)} :
               t \in 0 .. 143 => Cardinality(classesOf(t)) = 1

\* the player stands on a one-way ledge (top-solid below), in front of sky
\* (non-solid behind), up against a wall (solid one pixel to the right)
C14_Witness ==
    /\ classesOf(getTileNumberBelow(player)) = {"topSolid"}
    /\ classesOf(getTileNumberBehind(player)) = {"nonSolid"}
    /\ classesOf(getTileNumberAt(player.map,
                     player.x + CHARACTER_TILE_SIZE - widthOffset(player),
                     player.y + CHARACTER_TILE_SIZE \div 2)) = {"solid"}
    /\ onGround(player)

\* the eight points isColliding samples for c at its position
samplePoints(c) ==
    LET xs == {c.x + widthOffset(c), c.x + CHARACTER_TILE_SIZE \div 2,
               c.x + (CHARACTER_TILE_SIZE - 1) - widthOffset(c)}
        ys == {c.y + c.heightOffset, c.y + CHARACTER_TILE_SIZE \div 2,
               c.y + (CHARACTER_TILE_SIZE - 1)}
    IN  {pt \in xs \X ys : ~(pt[1] = c.x + CHARACTER_TILE_SIZE \div 2
                               /\ pt[2] = c.y + CHARACTER_TILE_SIZE \div 2)}

\* the pixel (px, py) is outside the map of level m
outside(m, px, py) ==
    \/ px < 0 \/ px >= mapWidth(m) * MAP_TILE_SIZE
    \/ py < 0 \/ py >= mapHeight(m) * MAP_TILE_SIZE

\* how far beyond the edges of the map the lookups are tried
Margin == 2

\* the classes that tile number t is in
kindsOf(t) ==
    {k \in {"solid", "nonSolid", "topSolid", "icy", "climbable", "spike", "door"} :
        \/ k = "solid" /\ isSolid(t)
        \/ k = "nonSolid" /\ isNonSolid(t)
        \/ k = "topSolid" /\ t \in TOP_SOLID_TILES
        \/ k = "icy" /\ t \in ICY_TILES
        \/ k = "climbable" /\ t \in CLIMBABLE_TILES
        \/ k = "spike" /\ t = SPIKE_TILE
        \/ k = "door" /\ t = OPEN_DOOR}

\* C15: a lookup at a pixel outside the map (negative, or at or beyond
\* mapWidth or mapHeight tiles) returns -1, and only such a lookup does
\* (tried on every tile up to Margin tiles around a level just loaded); -1
\* is non-solid and not solid, top-solid, icy, climbable, spike or door; a
\* character whose sample points are all outside the map is not colliding
C15_OutsideTheMap ==
    /\ log.kind # "logic" =>
           \A tx \in (- Margin) .. (mapWidth(currentLevel) + Margin - 1),
              ty \in (- Margin) .. (mapHeight(currentLevel) + Margin - 1) :
               \A px \in {tx * MAP_TILE_SIZE, tx * MAP_TILE_SIZE + MAP_TILE_SIZE - 1},
                  py \in {ty * MAP_TILE_SIZE, ty * MAP_TILE_SIZE + MAP_TILE_SIZE - 1} :
                   /\ getTileCoordsAt(px, py) = <<tx, ty>>
                   /\ getTileNumberAt(currentLevel, px, py) = -1
                          <=> outside(currentLevel, px, py)
    /\ kindsOf(-1) = {"nonSolid"}
    /\ \A c \in Characters \cup Logged :
           /\ \A pt \in samplePoints(c) :
                  outside(c.map, pt[1], pt[2])
                      => getTileNumberAt(c.map, pt[1], pt[2]) = -1
           /\ (\A pt \in samplePoints(c) : outside(c.map, pt[1], pt[2]))
                  => ~isColliding(c, c.x, c.y)

\* an NPC has fallen out of the map, all its sample points below the last
\* row, while the player's head is above the first row
C15_Witness ==
    /\ \E i \in 1 .. Len(NPCs) :
           \A pt \in samplePoints(NPCs[i]) : pt[2] >= mapHeight(currentLevel) * MAP_TILE_SIZE
    /\ player.y + player.heightOffset < 0

\* the place in the log of the player's gameLogic
playerDone == CHOOSE g \in Indices(log.steps, "gameLogic") : log.steps[g].who = 0

\* C16: in every frame that is not an exit, the player's gameLogic, its
\* move() included, is complete before the first overlap test and before
\* any NPC's gameLogic: every call before it is the player's own, every
\* call after it is on behalf of an NPC, and the overlap tests see the
\* player as its gameLogic left it, but for the hits counted since
C16_PlayerBeforeNPCs ==
    log.kind = "logic" =>
        /\ Cardinality({g \in Indices(log.steps, "gameLogic") : log.steps[g].who = 0}) = 1
        /\ playerDone > 1
        /\ log.steps[playerDone - 1].op = "move"
        /\ log.steps[playerDone - 1].post = log.steps[playerDone].post
        /\ \A k \in 1 .. Len(log.steps) :
               IF k <= playerDone THEN log.steps[k].who = 0
               ELSE /\ log.steps[k].who # 0
                    /\ log.steps[k].op = "visit" =>
                           log.steps[k].post \in
                                  {log.steps[playerDone].post} \cup
                                  {log.steps[j].post : j \in
                                      {j \in (playerDone + 1) .. (k - 1) :
                                          log.steps[j].op = "takeDamage"}}
        /\ playerDone < Len(log.steps) =>
               /\ log.steps[playerDone + 1].op = "visit"
               /\ log.steps[playerDone + 1].post = log.steps[playerDone].post

\* the player's move() of this frame took it from clear of an NPC into
\* overlap with it, and the NPC's overlap test found it there
C16_Witness ==
    /\ log.kind = "logic"
    /\ \E k \in Indices(log.steps, "visit") :
           /\ isOverlapping(log.steps[k].pre, log.steps[k].post)
           /\ ~isOverlapping(log.steps[k].pre, log.steps[playerDone].pre)
           /\ k > playerDone

\* the places in the log of the gameLogic of the NPC that step k is about
ownLogic(k) ==
    {g \in Indices(log.steps, "gameLogic") : log.steps[g].who = log.steps[k].who}

\* C17 as claimed: each overlap test of a tick sees the NPC where its
\* gameLogic of that tick leaves it and the player where the tick leaves it
C17_OverlapSeesEndOfTick ==
    log.kind = "logic" =>
        \A k \in Indices(log.steps, "visit") :
            /\ \A g \in ownLogic(k) :
                   /\ log.steps[k].pre.x = log.steps[g].post.x
                   /\ log.steps[k].pre.y = log.steps[g].post.y
            /\ log.steps[k].post.x = player.x
            /\ log.steps[k].post.y = player.y

\* C17: each overlap test of a tick comes after the player's gameLogic of
\* the tick and before any call on that NPC in the tick; it is made on the
\* NPC as the tick found it in the roster and decides the hit
C17_OverlapBeforeNPCMoves ==
    log.kind = "logic" =>
        \A k \in Indices(log.steps, "visit") :
            /\ k > playerDone
            /\ \E i \in 1 .. Len(log.NPCs) : log.NPCs[i] = log.steps[k].pre
            /\ \A j \in 1 .. Len(log.steps) :
                   log.steps[j].who = log.steps[k].who => j >= k
            /\ isOverlapping(log.steps[k].pre, log.steps[k].post)
                   <=> /\ k < Len(log.steps)
                       /\ log.steps[k + 1].op = "takeDamage"
                       /\ log.steps[k + 1].who = log.steps[k].who

\* an NPC was tested clear of the player, so the player was not hit, and
\* then walked into overlap with it in the same tick
C17_Witness ==
    /\ log.kind = "logic"
    /\ \E k \in Indices(log.steps, "visit") :
           /\ ~isOverlapping(log.steps[k].pre, log.steps[k].post)
           /\ \E g \in ownLogic(k) :
                  isOverlapping(log.steps[g].post, log.steps[k].post)
           /\ \A j \in Indices(log.steps, "takeDamage") : log.steps[j].who = 0

\* the friction that applies to c where it stands
frictionFor(c) ==
    IF getTileNumberBelow(c) \in ICY_TILES THEN ICE_FRICTION_PER_FRAME
    ELSE DEFAULT_FRICTION_PER_FRAME

\* C18: a call of applyFriction() changes nothing on a flying entity; on
\* any other it leaves dx = 0 at 0 and takes a dx # 0 towards 0 by the
\* friction of the tile below, to exactly 0 when less than that remains,
\* so that |dx| is strictly smaller and the sign of dx never changes
C18_FrictionReduces ==
    \A k \in Indices(log.steps, "applyFriction") :
        LET pre == log.steps[k].pre
            post == log.steps[k].post
        IN  IF pre.isFlying THEN post = pre
            ELSE IF pre.dx = 0 THEN post.dx = 0
            ELSE /\ Abs(post.dx) < Abs(pre.dx)
                 /\ Abs(post.dx) = IF Abs(pre.dx) < frictionFor(pre) THEN 0
                                   ELSE Abs(pre.dx) - frictionFor(pre)
                 /\ post.dx * pre.dx >= 0

\* C19: no call of move() changes dx or dy, whether or not a collision
\* stopped it on either axis
C19_MoveKeepsVelocity ==
    \A k \in Indices(log.steps, "move") :
        /\ log.steps[k].post.dx = log.steps[k].pre.dx
        /\ log.steps[k].post.dy = log.steps[k].pre.dy

\* a move() with dx # 0 and dy # 0 was stopped by a collision on both axes
\* and left with the dx and dy it came with
C19_Witness ==
    \E k \in Indices(log.steps, "move") :
        LET pre == log.steps[k].pre
            post == log.steps[k].post
        IN  /\ pre.dx # 0 /\ pre.dy # 0
            /\ Abs(post.x - pre.x) < roundUp(Abs(pre.dx))
            /\ Abs(post.y - pre.y) < roundUp(Abs(pre.dy))
            /\ isColliding(post, post.x + signOf(pre.dx), post.y)
            /\ isColliding(post, post.x, post.y + signOf(pre.dy))
            /\ post.dx = pre.dx /\ post.dy = pre.dy

\* the least multiple of MINIMUM_PIXELS_PER_FRAME that is no less than the
\* speed q
leastMultiple(q) ==
    CHOOSE n \in 0 .. (q + MINIMUM_PIXELS_PER_FRAME) :
        /\ n % MINIMUM_PIXELS_PER_FRAME = 0
        /\ n * Q >= q
        /\ (n - MINIMUM_PIXELS_PER_FRAME) * Q < q

\* of n one-pixel steps of c from (x, y) in direction (sx, sy), the number
\* before the first that would collide
freeSteps(c, x, y, sx, sy, n) ==
    CHOOSE f \in 0 .. n :
        /\ \A j \in 1 .. f : ~isColliding(c, x + j * sx, y + j * sy)
        /\ f < n => isColliding(c, x + (f + 1) * sx, y + (f + 1) * sy)

\* the distance the claim gives a move() of c from (x, y) along (sx, sy) at
\* speed q
reach(c, x, y, sx, sy, q) == freeSteps(c, x, y, sx, sy, leastMultiple(q))

\* C20: a move() displaces the entity along x by the lesser of the least
\* multiple of MINIMUM_PIXELS_PER_FRAME >= |dx| and the number of free
\* one-pixel steps in the direction of dx, then along y likewise with dy,
\* from the x reached; so it moves at least MINIMUM_PIXELS_PER_FRAME along
\* an unobstructed axis with a non-zero component, not at all along an
\* axis with a zero component, and through no colliding position
C20_MoveDisplacement ==
    \A k \in Indices(log.steps, "move") :
        LET pre == log.steps[k].pre
            post == log.steps[k].post
        IN  /\ roundUp(Abs(pre.dx)) = leastMultiple(Abs(pre.dx))
            /\ roundUp(Abs(pre.dy)) = leastMultiple(Abs(pre.dy))
            /\ post.x - pre.x = signOf(pre.dx)
                   * reach(pre, pre.x, pre.y, signOf(pre.dx), 0, Abs(pre.dx))
            /\ post.y - pre.y = signOf(pre.dy)
                   * reach(pre, post.x, pre.y, 0, signOf(pre.dy), Abs(pre.dy))
            /\ pre.dx = 0 => post.x = pre.x
            /\ pre.dy = 0 => post.y = pre.y
            /\ (pre.dx # 0 /\ \A j \in 1 .. MINIMUM_PIXELS_PER_FRAME :
                      ~isColliding(pre, pre.x + j * signOf(pre.dx), pre.y))
                   => Abs(post.x - pre.x) >= MINIMUM_PIXELS_PER_FRAME
            /\ (pre.dy # 0 /\ \A j \in 1 .. MINIMUM_PIXELS_PER_FRAME :
                      ~isColliding(pre, post.x, pre.y + j * signOf(pre.dy)))
                   => Abs(post.y - pre.y) >= MINIMUM_PIXELS_PER_FRAME
            /\ \A pos \in Entered(pre, post) : ~isColliding(pre, pos[1], pos[2])

\* a move() at a speed that is no multiple of MINIMUM_PIXELS_PER_FRAME went
\* the rounded distance along x, past the edge of the floor, and fell from
\* the x it reached, where it could not have fallen from the x it left
C20_Witness ==
    \E k \in Indices(log.steps, "move") :
        LET pre == log.steps[k].pre
            post == log.steps[k].post
        IN  /\ Abs(pre.dx) % (MINIMUM_PIXELS_PER_FRAME * Q) # 0
            /\ Abs(post.x - pre.x) = leastMultiple(Abs(pre.dx))
            /\ pre.dy > 0
            /\ isColliding(pre, pre.x, pre.y + 1)
            /\ post.y > pre.y

\* the step that stopped the horizontal movement of a move() from pre to
\* post, or none
rejectedX(pre, post) ==
    IF Abs(post.x - pre.x) < roundUp(Abs(pre.dx))
    THEN {<<post.x + signOf(pre.dx), pre.y>>} ELSE {}

\* the step that stopped its vertical movement, or none
rejectedY(pre, post) ==
    IF Abs(post.y - pre.y) < roundUp(Abs(pre.dy))
    THEN {<<post.x, post.y + signOf(pre.dy)>>} ELSE {}

\* C21: a one-pixel step of move() along x is rejected only for a sample
\* point in a solid tile, never for a top-solid tile alone, and so is a step
\* upwards (dy < 0)
C21_TopSolidOnlyFromAbove ==
    \A k \in Indices(log.steps, "move") :
        LET pre == log.steps[k].pre
            post == log.steps[k].post
        IN  /\ \A pos \in rejectedX(pre, post) : inSolid(pre, pos[1], pos[2])
            /\ pre.dy < 0 =>
                   \A pos \in rejectedY(pre, post) : inSolid(pre, pos[1], pos[2])

\* C22: a ledge-avoiding NPC that a tick finds on the ground is still in
\* the roster and on the ground when the tick ends
C22_LedgeAvoiderStaysGrounded ==
    log.kind = "logic" =>
        \A i \in 1 .. Len(log.NPCs) :
            (log.NPCs[i].ID = SHY_GUY_BLUE /\ onGround(log.NPCs[i])) =>
                \E j \in 1 .. Len(NPCs) :
                    /\ NPCs[j].slot = log.NPCs[i].slot
                    /\ onGround(NPCs[j])

\* the columns of pixels a character's feet cover lie inside its map
footprintInside(c) ==
    /\ c.x + widthOffset(c) >= 0
    /\ c.x + (CHARACTER_TILE_SIZE - 1) - widthOffset(c)
         < mapWidth(c.map) * MAP_TILE_SIZE

\* every flying NPC of the aviary is loaded with its footprint inside the map
loadedInside ==
    \A loc \in Aviary :
        footprintInside(NonPlayerCharacter(loc[1], 1, (loc[2] - 1) * MAP_TILE_SIZE,
                                           (loc[3] - 1) * MAP_TILE_SIZE, 1))

\* C23: a flying NPC whose footprint is inside the map when the level
\* loads has it inside the map at the end of every tick
C23_FlyerStaysInsideTheMap ==
    loadedInside =>
        \A j \in 1 .. Len(NPCs) : NPCs[j].isFlying => footprintInside(NPCs[j])

\* a crouch key is down
crouchKeyHeld(ks) == K_DOWN \in ks \/ K_s \in ks

\* C24: a player tick ends crouching only if a crouch key was held in it,
\* and turns a standing player into a crouching one only if a crouch key
\* was held and the player is not climbing
C24_CrouchNeedsKey ==
    log.kind = "logic" =>
        /\ player.isCrouching => crouchKeyHeld(keys)
        /\ (player.isCrouching /\ ~log.player.isCrouching) => ~player.isClimbing

\* a tick makes the player crouch, and a later one without the key makes
\* the player stand
C24_Witness ==
    /\ log.kind = "logic"
    /\ player.isCrouching /\ ~log.player.isCrouching
    /\ K_DOWN \in keys

C24_WitnessStand ==
    /\ log.kind = "logic"
    /\ ~player.isCrouching /\ log.player.isCrouching
    /\ ~crouchKeyHeld(keys)

\* C25: the player is never crouching and climbing at once
C25_CrouchingOrClimbing == ~(player.isCrouching /\ player.isClimbing)

upKeyHeld(ks) == K_UP \in ks \/ K_w \in ks

\* the calls of op the player's gameLogic made in this frame
playerCalls(op) == {k \in Indices(log.steps, op) : log.steps[k].who = 0}

\* C26: with an up key (or else a down key) held and a climbable tile behind
\* the player, move() finds dy at the climbing rate, upwards (or downwards),
\* and isClimbing set; a player that was climbing enters the tick's
\* acceleration steps no longer climbing if the tile behind is not
\* climbable, and with dy = 0 otherwise, and then, without climb or jump
\* input, ends the tick at the same height
C26_ClimbOverridesVerticalMotion ==
    log.kind = "logic" =>
        /\ \A k \in playerCalls("move") :
               LET pre == log.steps[k].pre
               IN  /\ (upKeyHeld(keys) /\ canClimb(pre)) =>
                          pre.dy = - PLAYER_CLIMBING_RATE /\ pre.isClimbing
                   /\ (~upKeyHeld(keys) /\ crouchKeyHeld(keys) /\ canClimb(pre)) =>
                          pre.dy = PLAYER_CLIMBING_RATE /\ pre.isClimbing
        /\ \A k \in playerCalls("applyFriction") :
               LET pre == log.steps[k].pre
               IN  log.player.isClimbing =>
                       /\ pre.isClimbing = canClimb(pre)
                       /\ pre.isClimbing => pre.dy = 0
                       /\ (/\ pre.isClimbing
                           /\ ~upKeyHeld(keys) /\ ~crouchKeyHeld(keys)
                           /\ K_SPACE \notin newKeys) => player.y = pre.y

\* an up key held on the vine in a tick in which gravity has pulled first
C26_Witness ==
    /\ log.kind = "logic"
    /\ upKeyHeld(keys)
    /\ \E k \in playerCalls("move") :
           /\ canClimb(log.steps[k].pre)
           /\ log.steps[k].pre.dy = - PLAYER_CLIMBING_RATE
    /\ \E k \in playerCalls("applyFriction") :
           ~log.steps[k].pre.isClimbing /\ log.steps[k].pre.dy > 0

\* the same with a jump from the ground earlier in the tick
C26_WitnessJump ==
    /\ log.kind = "logic"
    /\ upKeyHeld(keys)
    /\ \E k \in playerCalls("move") :
           /\ canClimb(log.steps[k].pre)
           /\ log.steps[k].pre.dy = - PLAYER_CLIMBING_RATE
    /\ \E k \in playerCalls("jump") : log.steps[k].post.dy < - PLAYER_CLIMBING_RATE

\* a down key held on the vine
C26_WitnessDown ==
    /\ log.kind = "logic"
    /\ \E k \in playerCalls("move") :
           /\ canClimb(log.steps[k].pre)
           /\ log.steps[k].pre.dy = PLAYER_CLIMBING_RATE

\* a climbing player has left the vine
C26_WitnessOff ==
    /\ log.kind = "logic" /\ log.player.isClimbing
    /\ \E k \in playerCalls("applyFriction") : ~log.steps[k].pre.isClimbing

\* a climbing player rests on the vine
C26_WitnessRest ==
    /\ log.kind = "logic" /\ log.player.isClimbing /\ player.isClimbing
    /\ keys = {} /\ player.y = log.player.y

\* C27: a key is in newKeys only in the frame whose batch holds its KEYDOWN,
\* and a player tick calls jump() once if K_SPACE is in newKeys and not at
\* all otherwise, so every jump attempt has a KEYDOWN of its own
C27_JumpIsEdgeTriggered ==
    /\ newKeys \subseteq pressed
    /\ log.kind = "logic" =>
           /\ (playerCalls("jump") # {}) = (K_SPACE \in newKeys)
           /\ Cardinality(playerCalls("jump")) <= 1

\* the jump key is still held in the frame after its KEYDOWN: no jump
C27_Witness ==
    /\ log.kind = "logic"
    /\ K_SPACE \in keys /\ K_SPACE \notin newKeys
    /\ playerCalls("jump") = {}
    /\ log.player.dy < 0

\* the frame of the KEYDOWN: a jump
C27_WitnessPress ==
    /\ log.kind = "logic"
    /\ K_SPACE \in pressed
    /\ \E k \in playerCalls("jump") : log.steps[k].post.dy < log.steps[k].pre.dy

\* a frame in which mainLoop called gameLogic(keys, newKeys)
calledGameLogic == log.kind = "logic" \/ log.kind = "complete"

\* every call of gameLogic gets the keys whose last event is a KEYDOWN
keysAreHeld == calledGameLogic => keys = held

\* once mainLoop has returned, the last frame is the one of the quit event
noLogicAfterQuit == ~running => log.kind = "quit"

\* C28: on every call of gameLogic newKeys is a subset of keys and keys is
\* the set of keys with a KEYDOWN not yet followed by a KEYUP, and no call
\* follows a QUIT or an ESCAPE KEYDOWN
C28_NewKeysAreHeldKeys ==
    /\ calledGameLogic => newKeys \subseteq keys
    /\ keysAreHeld
    /\ noLogicAfterQuit

\* C29: a call of applyFriction() on an airborne player does not bring dx
\* nearer to 0, and the push that a left or right key then gives an airborne
\* player is smaller than the acceleration rate a grounded player gets
C29_FrictionOnlyOnGround ==
    log.kind = "logic" =>
        \A k \in playerCalls("applyFriction") :
            LET pre  == log.steps[k].pre
                post == log.steps[k].post
            IN  ~onGround(pre) =>
                    /\ Abs(post.dx) >= Abs(pre.dx)
                    /\ (K_LEFT \in keys /\ K_RIGHT \notin keys) =>
                           Abs(left(post).dx - post.dx) < PLAYER_ACCELERATION_RATE
                    /\ (K_RIGHT \in keys /\ K_LEFT \notin keys) =>
                           Abs(right(post).dx - post.dx) < PLAYER_ACCELERATION_RATE

\* the stance and the move count of c are within their ranges
stanceInRange(c) ==
    /\ 0 <= c.currentStance /\ c.currentStance <= stances(c) - 1
    /\ 0 <= c.moveCount /\ c.moveCount < 2 * DEFAULT_PIXELS_PER_STANCE_CHANGE

\* C30: after the move() calls of a tick every character, of whatever kind,
\* has 0 <= currentStance <= stances - 1 and
\* 0 <= moveCount < 2 * DEFAULT_PIXELS_PER_STANCE_CHANGE
C30_StanceInRange ==
    log.kind = "logic" =>
        /\ stanceInRange(player)
        /\ \A j \in 1 .. Len(NPCs) : stanceInRange(NPCs[j])

\* the same for every kind that has a stance at all
stanceInRangeButPhanto ==
    log.kind = "logic" =>
        /\ stanceInRange(player)
        /\ \A j \in 1 .. Len(NPCs) : NPCs[j].ID # PHANTO => stanceInRange(NPCs[j])

\* the jumping stances config.py defines: the player's, and one for NPCs
jumpingStance(c) ==
    IF c.ID = PLAYER THEN PLAYER_JUMPING_STANCE ELSE NINJI_JUMPING_STANCE

\* C31: a character that move() leaves in the air has its jumping stance,
\* and one that move() did not move horizontally has currentStance = 0 and
\* moveCount = 0
C31_StanceResets ==
    \A k \in Indices(log.steps, "move") :
        LET pre  == log.steps[k].pre
            post == log.steps[k].post
        IN  /\ ~onGround(post) => post.currentStance = jumpingStance(post)
            /\ post.x = pre.x => post.currentStance = 0 /\ post.moveCount = 0

\* an NPC in the air has the stance 0 after move()
airborneNPCNotAtZero ==
    \A k \in Indices(log.steps, "move") :
        (log.steps[k].who # 0 /\ ~onGround(log.steps[k].post)) =>
            log.steps[k].post.currentStance # 0

\* a character on the ground that move() did not move has the stance 0
stoppedOnGround ==
    \A k \in Indices(log.steps, "move") :
        (onGround(log.steps[k].post) /\ log.steps[k].post.x = log.steps[k].pre.x) =>
            log.steps[k].post.currentStance = 0 /\ log.steps[k].post.moveCount = 0

\* the pixel columns and the pixel rows of a character's footprint
footprintX(c) ==
    (c.x + widthOffset(c)) .. (c.x + (CHARACTER_TILE_SIZE - 1) - widthOffset(c))

footprintY(c) == (c.y + c.heightOffset) .. (c.y + (CHARACTER_TILE_SIZE - 1))

footprintsMeet(a, b) ==
    /\ footprintX(a) \cap footprintX(b) # {}
    /\ footprintY(a) \cap footprintY(b) # {}

\* C32: isOverlapping gives the same answer whichever character asks, is
\* true of a character and itself, and is true exactly when the footprints
\* have a pixel column and a pixel row in common
C32_OverlapIsSymmetric ==
    log.kind = "isOverlapping" =>
        /\ log.npcPlayer = log.playerNpc
        /\ log.npcNpc /\ log.playerPlayer
        /\ log.npcPlayer = footprintsMeet(log.NPCs[1], log.player)

\* footprints with one pixel column in common overlap
C32_Witness ==
    /\ log.kind = "isOverlapping"
    /\ Cardinality(footprintX(log.NPCs[1]) \cap footprintX(log.player)) = 1
    /\ footprintX(log.NPCs[1]) \cap footprintX(log.player)
         = {log.NPCs[1].x + widthOffset(log.NPCs[1])}
    /\ log.npcPlayer /\ log.playerNpc

\* footprints with one pixel row in common overlap
C32_WitnessRow ==
    /\ log.kind = "isOverlapping"
    /\ Cardinality(footprintY(log.NPCs[1]) \cap footprintY(log.player)) = 1
    /\ log.npcPlayer /\ log.playerNpc

\* footprints a pixel apart do not
C32_WitnessApart ==
    /\ log.kind = "isOverlapping"
    /\ ~log.npcPlayer /\ ~log.playerNpc

\* c faces the way it moves
facesItsMotion(c) ==
    /\ c.dx > 0 => c.facingRight
    /\ c.dx < 0 => ~c.facingRight

\* C33: every character faces right when dx > 0 and left when dx < 0, at
\* the end of every frame and before and after every call made in it
C33_OrientationAgreesWithDx ==
    /\ \A c \in Characters : facesItsMotion(c)
    /\ \A k \in 1 .. Len(log.steps) :
           facesItsMotion(log.steps[k].pre) /\ facesItsMotion(log.steps[k].post)

\* left and right held in one tick: the player is pushed left, then back to
\* dx = 0, and is left facing left
C33_Witness ==
    /\ log.kind = "logic"
    /\ {K_LEFT, K_RIGHT} \subseteq keys
    /\ log.player.facingRight /\ log.player.dx = 0
    /\ ~player.facingRight /\ player.dx = 0

\* an NPC in motion turns round
C33_WitnessFlip ==
    \E k \in Indices(log.steps, "turn") :
        /\ log.steps[k].pre.dx # 0
        /\ log.steps[k].post.facingRight # log.steps[k].pre.facingRight

\* a player in motion dies
C33_WitnessDie ==
    \E k \in 1 .. Len(log.steps) : kills(log.steps[k]) /\ log.steps[k].pre.dx < 0

\* no left or right key is held, the player is not climbing, and the main
\* loop goes on
coasting ==
    /\ running
    /\ keys \cap {K_LEFT, K_RIGHT, K_a, K_d} = {}
    /\ ~player.isClimbing

\* C34: once no frame can change the state any more, with no left or right
\* key held and the player not climbing, the player's dx (which then stays
\* what it is for ever) is 0
C34_ComesToRest == (settled /\ coasting) => player.dx = 0

\* the calls of op the NPCs' gameLogic made in this frame
npcCalls(op) == {k \in Indices(log.steps, op) : log.steps[k].who # 0}

\* nothing stops c within n pixels in the direction it faces
unobstructed(c, n) ==
    \A i \in 1 .. n :
        ~isColliding(c, c.x + (IF c.facingRight THEN i ELSE - i), c.y)

\* C35: every NPC enters move() with dx = maxSpeedX facing right and
\* dx = -maxSpeedX facing left, and with nothing in its way move() takes it
\* roundUp(DEFAULT_NPC_MAX_SPEED_X) pixels that way
C35_NPCCruisingSpeed ==
    \A k \in npcCalls("move") :
        LET pre  == log.steps[k].pre
            post == log.steps[k].post
            n    == roundUp(DEFAULT_NPC_MAX_SPEED_X)
        IN  /\ pre.dx = IF pre.facingRight THEN maxSpeedX(pre) ELSE - maxSpeedX(pre)
            /\ unobstructed(pre, n) =>
                   post.x = pre.x + (IF pre.facingRight THEN n ELSE - n)

\* an NPC walking on ice
C35_Witness ==
    \E k \in npcCalls("move") :
        /\ onGround(log.steps[k].pre) /\ onIce(log.steps[k].pre)
        /\ log.steps[k].post.x # log.steps[k].pre.x
        /\ \E j \in npcCalls("applyFriction") :
               /\ log.steps[j].who = log.steps[k].who
               /\ log.steps[j].pre.dx # 0

\* an NPC in the tick in which it turns round
C35_WitnessFlip ==
    \E k \in npcCalls("move"), j \in npcCalls("turn") :
        /\ log.steps[j].who = log.steps[k].who
        /\ log.steps[j].pre.dx # 0
        /\ log.steps[j].post.facingRight # log.steps[j].pre.facingRight
        /\ log.steps[k].post.x # log.steps[k].pre.x

\* an NPC in its first tick
C35_WitnessFirst ==
    \E k \in npcCalls("applyFriction") : log.steps[k].pre.dx = 0

\* C36: an invincible player is small
C36_InvincibleOnlyWhenSmall ==
    /\ isInvincible(player) => isSmall(player)
    /\ \A k \in playerCalls("gameLogic") \cup playerCalls("die") :
           isInvincible(log.steps[k].post) => isSmall(log.steps[k].post)

\* C37: at the end of a tick no character with dy >= 0 has a bottom corner
\* of its footprint in a top-solid tile, and so none collides where it is
C37_NeverInsideOneWayPlatform ==
    log.kind = "logic" =>
        \A c \in Characters :
            c.dy >= 0 => ~inTopSolid(c, c.x, c.y) /\ ~isColliding(c, c.x, c.y)

\* the takeDamage() calls of the frame that changed the player
effectiveDamage ==
    {k \in Indices(log.steps, "takeDamage") : log.steps[k].post # log.steps[k].pre}

\* C38: in a frame that a Big player starts, no takeDamage() call kills the
\* player; at most one call changes the player, from Big to Small, and
\* every takeDamage() call after it is a no-op
C38_BigSurvivesTheTick ==
    (log.kind = "logic" /\ isBig(log.player)) =>
        /\ \A k \in Indices(log.steps, "takeDamage") : ~kills(log.steps[k])
        /\ Cardinality(effectiveDamage) <= 1
        /\ \A k \in effectiveDamage :
               /\ hurts(log.steps[k])
               /\ \A j \in Indices(log.steps, "takeDamage") :
                      j > k => log.steps[j].post = log.steps[j].pre

\* a Big player was hurt by one NPC, and the call for another NPC that
\* overlapped it in the same frame changed nothing
C38_Witness ==
    /\ log.kind = "logic" /\ isBig(log.player)
    /\ \E k, j \in Indices(log.steps, "takeDamage") :
           /\ k < j
           /\ log.steps[k].who # 0 /\ log.steps[j].who # 0
           /\ hurts(log.steps[k])
           /\ isSmall(player)

\* a Big player was hurt by the spike it stood on
C38_WitnessSpike ==
    /\ log.kind = "logic" /\ isBig(log.player)
    /\ \E k \in effectiveDamage : log.steps[k].who = 0 /\ hurts(log.steps[k])
    /\ isSmall(player)

\* an NPC as the level's placement loc leaves it: where the placement says,
\* facing left, at rest, flying exactly when it is one of the three fliers
asPlaced(n, loc) ==
    /\ n.ID = loc[1]
    /\ n.x = (loc[2] - 1) * MAP_TILE_SIZE
    /\ n.y = (loc[3] - 1) * MAP_TILE_SIZE
    /\ ~n.facingRight
    /\ n.dx = 0 /\ n.dy = 0
    /\ n.isFlying <=> n.ID \in {SPARK, ALBATOSS, PHANTO}

\* the place in the list of the NPC of a slot, 0 when it is not there
placeOf(list, slot) ==
    IF \E i \in 1 .. Len(list) : list[i].slot = slot
    THEN CHOOSE i \in 1 .. Len(list) : list[i].slot = slot
    ELSE 0

\* C39: after a frame that completed a level the player is Big, not
\* invincible, not crouching, not climbing, at rest, facing right, at the
\* start of the new level, and the roster is the new level's placement
\* list in order, every NPC as placed; after a frame of level logic every
\* NPC of the roster was in the roster the frame found, in the same order
C39_LoadResetsTheSession ==
    /\ log.kind = "complete" =>
           /\ isBig(player)
           /\ player.invincibilityTimer = 0
           /\ ~player.isCrouching /\ ~player.isClimbing
           /\ player.dx = 0 /\ player.dy = 0
           /\ player.facingRight
           /\ player.x = (STARTING_LOCATIONS[currentLevel][1] - 1) * MAP_TILE_SIZE
           /\ player.y = (STARTING_LOCATIONS[currentLevel][2] - 1) * MAP_TILE_SIZE
           /\ Len(NPCs) = Len(NPC_LOCATIONS[currentLevel])
           /\ \A i \in 1 .. Len(NPCs) :
                  asPlaced(NPCs[i], NPC_LOCATIONS[currentLevel][i])
    /\ log.kind = "logic" =>
           /\ \A i \in 1 .. Len(NPCs) :
                  /\ placeOf(log.NPCs, NPCs[i].slot) # 0
                  /\ log.NPCs[placeOf(log.NPCs, NPCs[i].slot)].ID = NPCs[i].ID
           /\ \A i, j \in 1 .. Len(NPCs) :
                  i < j => placeOf(log.NPCs, NPCs[i].slot)
                               < placeOf(log.NPCs, NPCs[j].slot)

\* a Small, invincible player walked through the exit, and the level
\* loaded has NPCs
C39_Witness ==
    /\ log.kind = "complete"
    /\ isSmall(log.player)
    /\ log.player.invincibilityTimer > 0
    /\ log.player.dx # 0
    /\ Len(NPCs) > 0

\* the player left the level facing left
C39_WitnessLeft ==
    /\ log.kind = "complete"
    /\ ~log.player.facingRight
    /\ log.player.dx < 0

\* the first of several NPCs left the roster and the others stayed
C39_WitnessRoster ==
    /\ log.kind = "logic"
    /\ Len(log.NPCs) > Len(NPCs)
    /\ Len(NPCs) > 0
    /\ \A i \in 1 .. Len(NPCs) : NPCs[i].slot > 1

=============================================================================
